---- MODULE Spec2Model ----
(***************************************************************************)
(* Job_scraper: the concurrent scraping orchestration.                     *)
(*                                                                         *)
(*   src/utils/parallel.py       parallel_fetch: a bounded thread pool     *)
(*                               with retry of the items whose worker      *)
(*                               raised                                    *)
(*   src/main.py                 main, scrape_platform_location            *)
(*   src/scrapers/*.py           the listing sources and their             *)
(*                               fetch_job_detail workers                  *)
(*   src/scrapers/scraper_registry.py   the registry of the sources       *)
(*   src/utils/date_parser.py, keyword_matcher.py, text_parser.py          *)
(*                               the functions that make the fields of a   *)
(*                               record from the text of a page            *)
(*                                                                         *)
(* Specifications:                                                         *)
(*   SpecPF      parallel_fetch alone, over a worker whose every call may  *)
(*               return a result, return None, or raise                    *)
(*   SpecPFFair  SpecPF with the thread pool's progress stated             *)
(*   Spec        main over a set of command lines and a fixed set of pages *)
(*   SpecLoad    main with --limit above the size of a detail pool         *)
(*   SpecTwice   main run a second time with the arguments of the first    *)
(*   SpecList    the listing pass of a source alone, over the feeds a      *)
(*               result page can show and what a scroll makes of them      *)
(*   SpecReg     calls of ScraperRegistry.register, get, create_scraper    *)
(*   SpecFn      one call of parse_relative_date, keyword_matches or       *)
(*               parse_job_description on an input of a bounded set        *)
(***************************************************************************)
EXTENDS Integers, Sequences, FiniteSets, TLC

\* ------------------------------------------------------------------ bounds

\* SpecPF: the longest item list, the largest pool and retry budget passed.
MaxItems == 2
MaxPool == 2
MaxRetry == 1

\* ------------------------------------------------------- program constants

\* ConcurrencyConfig.thread_workers, ConcurrencyConfig.max_retries
thread_workers == 5
retries_limit == 5
max_scrolls == 5
detail_workers == 5
max_retries == 3

\* Python's None for an optional int argument (the code only tests "is None").
NoneArg == 0 - 1

Range(s) == {s[i] : i \in 1..Len(s)}

\* ------------------------------------------------------------- parallel_fetch
\* One call of parallel_fetch is a record:
\*   items         the list this pass was called with
\*   queue         submitted futures no pool thread has picked up yet (FIFO)
\*   running       items whose worker call is executing on a pool thread
\*   completed     finished futures as_completed has not yielded yet,
\*                 each <<item, res>> with res = [kind, val]
\*   results, failed_items, retry_count, max_workers   the code's locals
\*   pc            "running" | "returned" | "raised"
\*   passes        calls made so far, the recursive ones included
\*   budget        the retry_count the outermost call started with
\*   calls         worker invocations per item
\* The recursive call (lines 79-89) is the last thing its caller does with
\* results: results.extend(retry_results). The callee's results are kept in
\* the same list, after the caller's own.

Raise == [kind |-> "raise", val |-> "exc"]
None == [kind |-> "none", val |-> "None"]
Ok(v) == [kind |-> "ok", val |-> v]

\* lines 38-48: the defaults, the empty result list, the early return
PFCall(items, max_workers, retry_count) ==
    [items |-> items,
     queue |-> items,
     running |-> {},
     completed |-> {},
     results |-> <<>>,
     failed_items |-> <<>>,
     max_workers |-> IF max_workers = NoneArg THEN thread_workers ELSE max_workers,
     retry_count |-> IF retry_count = NoneArg THEN max_retries ELSE retry_count,
     pc |-> IF Len(items) = 0 THEN "returned" ELSE "running",
     passes |-> 1,
     budget |-> IF retry_count = NoneArg THEN max_retries ELSE retry_count,
     calls |-> [i \in Range(items) |-> 0]]

\* ThreadPoolExecutor(max_workers): a queued future starts only on a free thread
PoolHasFreeThreadUnbounded(running, max_workers) == TRUE
PoolHasFreeThread(running, max_workers) == Cardinality(running) < max_workers

\* line 57, the pool: the oldest queued item starts on a free thread
PFCanStart(pf) ==
    /\ pf.pc = "running"
    /\ pf.queue # <<>>
    /\ PoolHasFreeThread(pf.running, pf.max_workers)

PFStart(pf) ==
    LET item == Head(pf.queue) IN
    [pf EXCEPT !.queue = Tail(@),
               !.running = @ \cup {item},
               !.calls[item] = @ + 1]

\* fetch_function(item) returns res or raises on its pool thread
PFFinish(pf, item, res) ==
    [pf EXCEPT !.running = @ \ {item},
               !.completed = @ \cup {<<item, res>>}]

\* lines 63-76: the body of the as_completed loop for one finished future
PFCollectPropagates(pf, c) ==
    IF c[2].kind = "raise"
    THEN [pf EXCEPT !.completed = @ \ {c}, !.pc = "raised"]
    ELSE IF c[2].kind = "ok"
    THEN [pf EXCEPT !.completed = @ \ {c}, !.results = Append(@, c[2].val)]
    ELSE [pf EXCEPT !.completed = @ \ {c}]

\* variant: a worker that returned None is retried like one that raised
PFCollectRetriesNone(pf, c) ==
    IF c[2].kind \in {"raise", "none"}
    THEN [pf EXCEPT !.completed = @ \ {c}, !.failed_items = Append(@, c[1])]
    ELSE [pf EXCEPT !.completed = @ \ {c}, !.results = Append(@, c[2].val)]

PFCollect(pf, c) ==
    IF c[2].kind = "raise"
    THEN [pf EXCEPT !.completed = @ \ {c}, !.failed_items = Append(@, c[1])]
    ELSE IF c[2].kind = "ok"
    THEN [pf EXCEPT !.completed = @ \ {c}, !.results = Append(@, c[2].val)]
    ELSE [pf EXCEPT !.completed = @ \ {c}]

\* the with block has ended: every future was yielded by as_completed
PFPassOver(pf) ==
    /\ pf.pc = "running"
    /\ pf.queue = <<>>
    /\ pf.running = {}
    /\ pf.completed = {}

\* line 79
\* variant: a budget of 0 still buys a retry
PFRetriesAtZero(pf) == pf.failed_items # <<>> /\ pf.retry_count >= 0
PFRetriesOffByOne(pf) == pf.failed_items # <<>> /\ pf.retry_count > 1
PFRetries(pf) == pf.failed_items # <<>> /\ pf.retry_count > 0

\* lines 79-92: retry the failed items with one retry less, or return
PFPassEndSameBudget(pf) ==
    IF PFRetries(pf)
    THEN [pf EXCEPT !.items = pf.failed_items,
                    !.queue = pf.failed_items,
                    !.failed_items = <<>>,
                    !.passes = @ + 1]
    ELSE [pf EXCEPT !.pc = "returned"]

PFPassEnd(pf) ==
    IF PFRetries(pf)
    THEN [pf EXCEPT !.items = pf.failed_items,
                    !.queue = pf.failed_items,
                    !.failed_items = <<>>,
                    !.retry_count = @ - 1,
                    !.passes = @ + 1]
    ELSE [pf EXCEPT !.pc = "returned"]

\* ------------------------------------------------------------------ strings
\* A string the code inspects (substring tests, lower(), split(), strip()) is a
\* sequence of one-character strings; a string it only stores or compares is a
\* TLA+ string.

UpperCase == <<"A","B","C","D","E","F","G","H","I","J","K","L","M",
               "N","O","P","Q","R","S","T","U","V","W","X","Y","Z">>
LowerCase == <<"a","b","c","d","e","f","g","h","i","j","k","l","m",
               "n","o","p","q","r","s","t","u","v","w","x","y","z">>

LowerChar(c) ==
    IF \E k \in 1..26 : UpperCase[k] = c
    THEN LowerCase[CHOOSE k \in 1..26 : UpperCase[k] = c]
    ELSE c

\* str.lower()
Lower(s) == SubSeq([k \in 1..Len(s) |-> LowerChar(s[k])], 1, Len(s))

\* Python's "sub in s"
Contains(s, sub) ==
    \E k \in 0..(Len(s) - Len(sub)) : SubSeq(s, k + 1, k + Len(sub)) = sub

IsSpace(c) == c = " "

\* "not s or not s.strip()"
IsBlank(s) == \A k \in 1..Len(s) : IsSpace(s[k])

\* str.split(): the maximal runs of non-whitespace characters
RECURSIVE Split(_)
Split(s) ==
    IF s = <<>> THEN <<>>
    ELSE IF IsSpace(s[1]) THEN Split(Tail(s))
    ELSE LET n == CHOOSE k \in 1..Len(s) :
                    /\ \A m \in 1..k : ~IsSpace(s[m])
                    /\ k = Len(s) \/ IsSpace(s[k + 1])
         IN <<SubSeq(s, 1, n)>> \o Split(SubSeq(s, n + 1, Len(s)))

\* the strings of the runs below
Str_empty == <<>>
Str_sre == <<"S","R","E">>
Str_qa == <<"Q","A">>
Str_Berlin == <<"B","e","r","l","i","n">>
Str_US == <<"U","S">>
Str_Austin == <<"A","u","s","t","i","n">>
Str_Munich == <<"M","u","n","i","c","h">>
Str_Join == <<"J","o","i","n">>
Str_Sign == <<"S","i","g","n">>
Str_Log == <<"L","o","g">>
Str_SignUp == <<"S","i","g","n"," ","U","p">>
Str_remote == <<"r","e","m","o","t","e">>

\* ----------------------------------------------------------- keyword_matches

\* keyword_variations
keyword_variations ==
    [k \in {<<"s","r","e">>} |->
        {<<"s","i","t","e"," ","r","e","l","i","a","b","i","l","i","t","y"," ","e","n","g","i","n","e","e","r">>,
         <<"s","i","t","e"," ","r","e","l","i","a","b","i","l","i","t","y">>,
         <<"s","r","e">>}]
    @@ [k \in {<<"d","e","v","o","p","s">>} |->
        {<<"d","e","v","o","p","s">>,
         <<"d","e","v"," ","o","p","s">>,
         <<"d","e","v","e","l","o","p","m","e","n","t"," ","o","p","e","r","a","t","i","o","n","s">>}]
    @@ [k \in {<<"m","l">>} |->
        {<<"m","a","c","h","i","n","e"," ","l","e","a","r","n","i","n","g">>,
         <<"m","l">>}]
    @@ [k \in {<<"a","i">>} |->
        {<<"a","r","t","i","f","i","c","i","a","l"," ","i","n","t","e","l","l","i","g","e","n","c","e">>,
         <<"a","i">>}]
    @@ [k \in {<<"q","a">>} |->
        {<<"q","u","a","l","i","t","y"," ","a","s","s","u","r","a","n","c","e">>,
         <<"q","a">>,
         <<"q","u","a","l","i","t","y"," ","e","n","g","i","n","e","e","r">>}]
    @@ [k \in {<<"u","i">>} |->
        {<<"u","s","e","r"," ","i","n","t","e","r","f","a","c","e">>,
         <<"u","i">>}]
    @@ [k \in {<<"u","x">>} |->
        {<<"u","s","e","r"," ","e","x","p","e","r","i","e","n","c","e">>,
         <<"u","x">>}]

\* variant: a keyword of several words matches when any of its words occurs
keyword_matches_any_word(title, keyword) ==
    LET title_lower == Lower(title)
        keyword_lower == Lower(keyword)
        keyword_words == Split(keyword_lower)
    IN \/ Contains(title_lower, keyword_lower)
       \/ /\ keyword_lower \in DOMAIN keyword_variations
          /\ \E v \in keyword_variations[keyword_lower] : Contains(title_lower, v)
       \/ /\ Len(keyword_words) > 1
          /\ \E k \in 1..Len(keyword_words) : Contains(title_lower, keyword_words[k])

keyword_matches(title, keyword) ==
    LET title_lower == Lower(title)
        keyword_lower == Lower(keyword)
        keyword_words == Split(keyword_lower)
    IN \/ Contains(title_lower, keyword_lower)
       \/ /\ keyword_lower \in DOMAIN keyword_variations
          /\ \E v \in keyword_variations[keyword_lower] : Contains(title_lower, v)
       \/ /\ Len(keyword_words) > 1
          /\ \A k \in 1..Len(keyword_words) : Contains(title_lower, keyword_words[k])

\* --------------------------------------------------------- ScraperRegistry

\* ScraperRegistry._scrapers after auto_register_scrapers(): the key is
\* get_platform_name().lower(), the value the platform name the scraper
\* writes into its records. IndeedScraper is never registered.
_scrapers ==
    [k \in {"linkedin", "glassdoor", "naukri"} |->
        IF k = "linkedin" THEN "LinkedIn"
        ELSE IF k = "glassdoor" THEN "Glassdoor" ELSE "Naukri"]

\* ScraperRegistry.get: KeyError for a key that is not registered
RegistryKnows(platform) == platform \in DOMAIN _scrapers

\* The classes register can be given. A class that does not override the
\* abstract get_platform_name inherits the body "pass", which returns None.
ScraperClass(name, is_job_scraper, has_platform_name, platform_name) ==
    [name |-> name, is_job_scraper |-> is_job_scraper,
     has_platform_name |-> has_platform_name, platform_name |-> platform_name]

Str_LinkedIn == <<"L","i","n","k","e","d","I","n">>
Str_LINKEDIN == <<"L","I","N","K","E","D","I","N">>
Str_linkedin == <<"l","i","n","k","e","d","i","n">>
Str_Glassdoor == <<"G","l","a","s","s","d","o","o","r">>
Str_Naukri == <<"N","a","u","k","r","i">>
Str_naukri == <<"n","a","u","k","r","i">>
Str_indeed == <<"i","n","d","e","e","d">>

LinkedinScraper == ScraperClass("LinkedinScraper", TRUE, TRUE, Str_LinkedIn)
GlassdoorScraper == ScraperClass("GlassdoorScraper", TRUE, TRUE, Str_Glassdoor)
NaukriScraper == ScraperClass("NaukriScraper", TRUE, TRUE, Str_Naukri)
IndeedScraper == ScraperClass("IndeedScraper", TRUE, FALSE, Str_empty)

\* a second implementation of the LinkedIn source, and a class that is no scraper
LinkedinApiScraper == ScraperClass("LinkedinApiScraper", TRUE, TRUE, Str_LINKEDIN)
NotAScraper == ScraperClass("object", FALSE, FALSE, Str_empty)

ScraperClasses ==
    {LinkedinScraper, GlassdoorScraper, NaukriScraper, IndeedScraper,
     LinkedinApiScraper, NotAScraper}

\* the platform names get and create_scraper are asked for
PlatformNames == {Str_linkedin, Str_LinkedIn, Str_Glassdoor, Str_naukri, Str_indeed}

Returns(v) == [kind |-> "return", val |-> v]
Raises(exc, msg) == [kind |-> "raise", val |-> [exc |-> exc, msg |-> msg]]

\* _scrapers is a dict: the sequence of its <<key, value>> items in the order
\* the keys were first set.
DictKeys(d) == [k \in 1..Len(d) |-> d[k][1]]
DictHas(d, key) == \E k \in 1..Len(d) : d[k][1] = key
DictGet(d, key) == d[CHOOSE k \in 1..Len(d) : d[k][1] = key][2]

\* variant: the item is added whether or not the key is there
DictSetAppends(d, key, value) == Append(d, <<key, value>>)

\* d[key] = value
DictSet(d, key, value) ==
    IF DictHas(d, key)
    THEN [k \in 1..Len(d) |-> IF d[k][1] = key THEN <<key, value>> ELSE d[k]]
    ELSE Append(d, <<key, value>>)

\* ScraperRegistry.register: the registry it leaves and what the call ends in
register(scrapers, scraper_class) ==
    IF ~scraper_class.is_job_scraper
    THEN [scrapers |-> scrapers, ret |-> Raises("ValueError", scraper_class.name)]
    ELSE IF ~scraper_class.has_platform_name
    THEN [scrapers |-> scrapers, ret |-> Raises("AttributeError", scraper_class.name)]
    ELSE [scrapers |-> DictSet(scrapers, Lower(scraper_class.platform_name),
                               scraper_class.name),
          ret |-> Returns("None")]

\* variant: the class is looked up under the name as it was given
getCaseSensitive(scrapers, platform_name) ==
    IF ~DictHas(scrapers, platform_name)
    THEN Raises("KeyError", [platform_name |-> platform_name,
                             available |-> DictKeys(scrapers)])
    ELSE Returns(DictGet(scrapers, platform_name))

\* ScraperRegistry.get: the message of the KeyError is kept as its two parts
get(scrapers, platform_name) ==
    LET platform_key == Lower(platform_name) IN
    IF ~DictHas(scrapers, platform_key)
    THEN Raises("KeyError", [platform_name |-> platform_name,
                             available |-> DictKeys(scrapers)])
    ELSE Returns(DictGet(scrapers, platform_key))

\* ScraperRegistry.create_scraper: an instance is named by its class
create_scraper(scrapers, platform_name) ==
    LET scraper_class == get(scrapers, platform_name) IN
    IF scraper_class.kind = "raise" THEN scraper_class
    ELSE Returns([instance_of |-> scraper_class.val])

\* auto_register_scrapers
RegistryAfterImport ==
    register(register(register(<<>>, LinkedinScraper).scrapers,
                      GlassdoorScraper).scrapers, NaukriScraper).scrapers

\* JobScraper.validate_config: TRUE when it raises ScraperConfigError
ConfigInvalid(keyword, location, limit, days) ==
    \/ IsBlank(keyword)
    \/ IsBlank(location)
    \/ limit <= 0
    \/ days <= 0

\* -------------------------------------------------------------- date_parser
\* A date is its proleptic Gregorian ordinal (date.toordinal(): 1 is
\* 0001-01-01), a datetime the ordinal of its day: the code formats every
\* datetime it makes with '%Y-%m-%d' and takes .days of a difference.

Digits == <<"0","1","2","3","4","5","6","7","8","9">>
IsDigit(c) == \E k \in 1..10 : Digits[k] = c
DigitValue(c) == (CHOOSE k \in 1..10 : Digits[k] = c) - 1

\* int(s) of a string of digits
RECURSIVE ParseInt(_)
ParseInt(s) ==
    IF s = <<>> THEN 0
    ELSE ParseInt(SubSeq(s, 1, Len(s) - 1)) * 10 + DigitValue(s[Len(s)])

\* the decimal digits of n >= 0
RECURSIVE IntToStr(_)
IntToStr(n) ==
    IF n < 10 THEN <<Digits[n + 1]>>
    ELSE Append(IntToStr(n \div 10), Digits[(n % 10) + 1])

\* %m and %d of strftime: two digits
Pad2(n) == IF n < 10 THEN <<"0">> \o IntToStr(n) ELSE IntToStr(n)

\* str.strip()
Strip(s) ==
    IF IsBlank(s) THEN <<>>
    ELSE LET a == CHOOSE k \in 1..Len(s) :
                    ~IsSpace(s[k]) /\ \A m \in 1..(k - 1) : IsSpace(s[m])
             b == CHOOSE k \in 1..Len(s) :
                    ~IsSpace(s[k]) /\ \A m \in (k + 1)..Len(s) : IsSpace(s[m])
         IN SubSeq(s, a, b)

\* the literal lit stands in s at position p
StartsAt(s, p, lit) ==
    /\ p >= 1
    /\ p + Len(lit) - 1 <= Len(s)
    /\ SubSeq(s, p, p + Len(lit) - 1) = lit

\* \s* and \d* from position p on: the position after the longest run
SpacesEnd(s, p) ==
    CHOOSE q \in p..(Len(s) + 1) :
        /\ \A k \in p..(q - 1) : IsSpace(s[k])
        /\ q = Len(s) + 1 \/ ~IsSpace(s[q])

DigitsEnd(s, p) ==
    CHOOSE q \in p..(Len(s) + 1) :
        /\ \A k \in p..(q - 1) : IsDigit(s[k])
        /\ q = Len(s) + 1 \/ ~IsDigit(s[q])

Min(S) == CHOOSE x \in S : \A y \in S : x <= y

NoMatch == 0 - 1

Str_ago == <<"a","g","o">>
Str_s == <<"s">>
Str_plus == <<"+">>
Str_over == <<"o","v","e","r">>
Str_today == <<"t","o","d","a","y">>
Str_just_now == <<"j","u","s","t"," ","n","o","w">>
Str_just_posted == <<"j","u","s","t"," ","p","o","s","t","e","d">>
Str_yesterday == <<"y","e","s","t","e","r","d","a","y">>
Str_hour == <<"h","o","u","r">>
Str_hr == <<"h","r">>
Str_day == <<"d","a","y">>
Str_d == <<"d">>
Str_week == <<"w","e","e","k">>
Str_wk == <<"w","k">>
Str_month == <<"m","o","n","t","h">>
Str_mo == <<"m","o">>
Str_dash == <<"-">>
Str_slash == <<"/">>

\* (\d+) sep \s* (?:unit|unit) s? \s* ago  matched from position p on: the
\* number group 1 holds, or NoMatch
AgoMatchAt(s, p, sep, units) ==
    LET q == DigitsEnd(s, p)
        r == SpacesEnd(s, q + Len(sep))
    IN IF /\ p <= Len(s)
          /\ q > p
          /\ StartsAt(s, q, sep)
          /\ \E u \in units :
                /\ StartsAt(s, r, u)
                /\ \/ StartsAt(s, SpacesEnd(s, r + Len(u)), Str_ago)
                   \/ /\ StartsAt(s, r + Len(u), Str_s)
                      /\ StartsAt(s, SpacesEnd(s, r + Len(u) + 1), Str_ago)
       THEN ParseInt(SubSeq(s, p, q - 1))
       ELSE NoMatch

\* re.search of that pattern: the leftmost match
AgoSearch(s, sep, units) ==
    LET hits == {p \in 1..Len(s) : AgoMatchAt(s, p, sep, units) # NoMatch}
    IN IF hits = {} THEN NoMatch ELSE AgoMatchAt(s, Min(hits), sep, units)

\* re.search of  over\s+(\d+)\s*(?:day|d)s?\s*ago
OverSearch(s) ==
    LET at(p) == IF StartsAt(s, p, Str_over) /\ SpacesEnd(s, p + 4) > p + 4
                 THEN AgoMatchAt(s, SpacesEnd(s, p + 4), Str_empty, {Str_day, Str_d})
                 ELSE NoMatch
        hits == {p \in 1..Len(s) : at(p) # NoMatch}
    IN IF hits = {} THEN NoMatch ELSE at(Min(hits))

IsLeap(y) == (y % 4 = 0 /\ y % 100 # 0) \/ y % 400 = 0

DaysInMonth(y, m) ==
    IF m = 2 THEN (IF IsLeap(y) THEN 29 ELSE 28)
    ELSE IF m \in {4, 6, 9, 11} THEN 30 ELSE 31

\* datetime(year, month, day) raises ValueError
NoSuchDate(y, m, d) ==
    \/ y < 1 \/ y > 9999
    \/ m < 1 \/ m > 12
    \/ d < 1 \/ d > DaysInMonth(y, m)

\* date(y, m, d).toordinal()
ToOrdinal(y, m, d) ==
    LET yy == IF m <= 2 THEN y - 1 ELSE y
        era == yy \div 400
        yoe == yy - era * 400
        mp == IF m > 2 THEN m - 3 ELSE m + 9
        doy == (153 * mp + 2) \div 5 + d - 1
        doe == yoe * 365 + yoe \div 4 - yoe \div 100 + doy
    IN era * 146097 + doe - 305

\* date.fromordinal(n) as <<year, month, day>>
FromOrdinal(n) ==
    LET z == n + 305
        era == z \div 146097
        doe == z - era * 146097
        yoe == (doe - doe \div 1460 + doe \div 36524 - doe \div 146096) \div 365
        doy == doe - (365 * yoe + yoe \div 4 - yoe \div 100)
        mp == (5 * doy + 2) \div 153
        d == doy - (153 * mp + 2) \div 5 + 1
        m == IF mp < 10 THEN mp + 3 ELSE mp - 9
        y == yoe + era * 400 + (IF m <= 2 THEN 1 ELSE 0)
    IN <<y, m, d>>

\* strftime('%Y-%m-%d') of the C library of Linux: %Y is the year without
\* leading zeros
strftime(n) ==
    LET ymd == FromOrdinal(n)
    IN IntToStr(ymd[1]) \o Str_dash \o Pad2(ymd[2]) \o Str_dash \o Pad2(ymd[3])

\* the largest timedelta, in days, and date.min
timedelta_max_days == 999999999
date_min == 1

\* (current_date - timedelta(days=days)).strftime('%Y-%m-%d'): OverflowError
\* for a timedelta out of range and for a date before date.min
DaysAgo(current_date, days) ==
    IF days > timedelta_max_days \/ current_date - days < date_min
    THEN Raises("OverflowError", "date value out of range")
    ELSE Returns(strftime(current_date - days))

\* the first match of an absolute pattern  (\d{a}) sep (\d{2}) sep (\d{b}) :
\* its three groups as numbers, or <<>>
AbsoluteAt(s, p, a, sep, b) ==
    /\ p + a + b + 3 <= Len(s)
    /\ \A k \in p..(p + a - 1) : IsDigit(s[k])
    /\ StartsAt(s, p + a, sep)
    /\ IsDigit(s[p + a + 1]) /\ IsDigit(s[p + a + 2])
    /\ StartsAt(s, p + a + 3, sep)
    /\ \A k \in (p + a + 4)..(p + a + b + 3) : IsDigit(s[k])

AbsoluteSearch(s, a, sep, b) ==
    LET hits == {p \in 1..Len(s) : AbsoluteAt(s, p, a, sep, b)}
        p == Min(hits)
    IN IF hits = {} THEN <<>>
       ELSE <<ParseInt(SubSeq(s, p, p + a - 1)),
              ParseInt(SubSeq(s, p + a + 1, p + a + 2)),
              ParseInt(SubSeq(s, p + a + 4, p + a + b + 3))>>

\* lines 88-112: the three absolute patterns in turn, a ValueError of
\* datetime(...) goes on to the next pattern
ParseAbsolute(date_string) ==
    LET iso == AbsoluteSearch(date_string, 4, Str_dash, 2)
        us == AbsoluteSearch(date_string, 2, Str_slash, 4)
        eu == AbsoluteSearch(date_string, 2, Str_dash, 4)
    IN IF iso # <<>> /\ ~NoSuchDate(iso[1], iso[2], iso[3])
       THEN Returns(strftime(ToOrdinal(iso[1], iso[2], iso[3])))
       ELSE IF us # <<>> /\ ~NoSuchDate(us[3], us[1], us[2])
       THEN Returns(strftime(ToOrdinal(us[3], us[1], us[2])))
       ELSE IF eu # <<>> /\ ~NoSuchDate(eu[3], eu[2], eu[1])
       THEN Returns(strftime(ToOrdinal(eu[3], eu[2], eu[1])))
       ELSE None

\* parse_relative_date, with datetime.now() as its second argument
\* variant: a started day counts as a day
HoursToDaysRoundedUp(hours) == (hours + 23) \div 24

\* "days = hours // 24"
HoursToDays(hours) == hours \div 24

parse_relative_date(date_string, current_date) ==
    IF date_string = <<>> THEN None
    ELSE
    LET date_string_lower == Strip(Lower(date_string))
        hours == AgoSearch(date_string_lower, Str_empty, {Str_hour, Str_hr})
        days == AgoSearch(date_string_lower, Str_empty, {Str_day, Str_d})
        weeks == AgoSearch(date_string_lower, Str_empty, {Str_week, Str_wk})
        months == AgoSearch(date_string_lower, Str_empty, {Str_month, Str_mo})
        over_days == OverSearch(date_string_lower)
        plus_days == AgoSearch(date_string_lower, Str_plus, {Str_day, Str_d})
    IN IF \E word \in {Str_today, Str_just_now, Str_just_posted} :
              Contains(date_string_lower, word)
       THEN Returns(strftime(current_date))
       ELSE IF Contains(date_string_lower, Str_yesterday)
       THEN DaysAgo(current_date, 1)
       ELSE IF hours # NoMatch
       THEN (IF hours < 24 THEN Returns(strftime(current_date))
             ELSE DaysAgo(current_date, HoursToDays(hours)))
       ELSE IF days # NoMatch THEN DaysAgo(current_date, days)
       ELSE IF weeks # NoMatch THEN DaysAgo(current_date, 7 * weeks)
       ELSE IF months # NoMatch THEN DaysAgo(current_date, months * 30)
       ELSE IF over_days # NoMatch THEN DaysAgo(current_date, over_days + 1)
       ELSE IF plus_days # NoMatch THEN DaysAgo(current_date, plus_days)
       ELSE ParseAbsolute(date_string)

\* datetime.strptime(posted_date, '%Y-%m-%d'): the ordinal of the date, or
\* NoMatch for the ValueError of a string that is not of that format
strptime(posted_date) ==
    LET a == DigitsEnd(posted_date, 1)
        y == ParseInt(SubSeq(posted_date, 1, 4))
        m == ParseInt(SubSeq(posted_date, 6, 7))
        d == ParseInt(SubSeq(posted_date, 9, 10))
    IN IF /\ Len(posted_date) = 10
          /\ AbsoluteAt(posted_date, 1, 4, Str_dash, 2)
          /\ ~NoSuchDate(y, m, d)
       THEN ToOrdinal(y, m, d)
       ELSE NoMatch

\* is_within_days, with datetime.now() as its third argument; posted_date is
\* None or a record with the string as its val
is_within_days(posted_date, days, current) ==
    IF posted_date = None \/ posted_date.val = <<>> THEN TRUE
    ELSE LET posted == strptime(posted_date.val)
         IN IF posted = NoMatch THEN TRUE
            ELSE current - posted <= days

\* -------------------------------------------------------------- text_parser
\* A heading pattern is the list of the literals it can match, in the order
\* the regular expression tries them at a position (an optional group is tried
\* with the group first); every heading pattern ends in ":?".

\* resp_patterns
resp_patterns ==
    <<<<<<"k","e","y"," ","r","e","s","p","o","n","s","i","b","i","l","i","t","i","e","s">>,
        <<"r","e","s","p","o","n","s","i","b","i","l","i","t","i","e","s">>>>,
      <<<<"w","h","a","t"," ","y","o","u","'","l","l"," ","d","o">>,
        <<"w","h","a","t"," ","y","o","u"," ","w","i","l","l"," ","d","o">>>>,
      <<<<"d","u","t","i","e","s">>>>,
      <<<<"r","o","l","e"," ","o","v","e","r","v","i","e","w">>>>,
      <<<<"j","o","b"," ","d","e","s","c","r","i","p","t","i","o","n">>>>>>

\* skill_patterns
skill_patterns ==
    <<<<<<"r","e","q","u","i","r","e","d"," ","s","k","i","l","l","s">>,
        <<"s","k","i","l","l","s">>>>,
      <<<<"q","u","a","l","i","f","i","c","a","t","i","o","n","s">>>>,
      <<<<"r","e","q","u","i","r","e","m","e","n","t","s">>>>,
      <<<<"w","h","a","t"," ","w","e","'","r","e"," ","l","o","o","k","i","n","g"," ","f","o","r">>,
        <<"w","h","a","t"," ","w","e"," ","a","r","e"," ","l","o","o","k","i","n","g"," ","f","o","r">>>>,
      <<<<"w","h","o"," ","y","o","u"," ","a","r","e">>>>,
      <<<<"m","u","s","t"," ","h","a","v","e","s">>,
        <<"m","u","s","t"," ","h","a","v","e">>>>>>

Str_colon == <<":">>
Str_year == <<"y","e","a","r">>
Str_years_suffix == <<" ","y","e","a","r","s">>
Str_plus_years == <<"+"," ","y","e","a","r","s">>
Str_to == <<"t","o">>
\* the character U+2013, as one element
Str_en_dash == <<"EN DASH">>
Str_minimum == <<"m","i","n","i","m","u","m">>
Str_of == <<"o","f">>
Str_at == <<"a","t">>
Str_least == <<"l","e","a","s","t">>
Str_experience == <<"e","x","p","e","r","i","e","n","c","e">>
Str_ellipsis == <<".",".",".">>

\* the offset a match of the heading pattern that starts at offset p ends at
\* (offsets count from 0, as match.start() and match.end()), or NoMatch
HeadingEndAt(text_lower, p, pattern) ==
    LET alts == {a \in 1..Len(pattern) : StartsAt(text_lower, p + 1, pattern[a])}
        e == p + Len(pattern[Min(alts)])
    IN IF alts = {} THEN NoMatch
       ELSE IF StartsAt(text_lower, e + 1, Str_colon) THEN e + 1 ELSE e

\* re.search(pattern, text_lower): <<match.start(), match.end()>> or <<-1, -1>>
HeadingSearch(text_lower, pattern) ==
    LET hits == {p \in 0..(Len(text_lower) - 1) :
                    HeadingEndAt(text_lower, p, pattern) # NoMatch}
    IN IF hits = {} THEN <<NoMatch, NoMatch>>
       ELSE <<Min(hits), HeadingEndAt(text_lower, Min(hits), pattern)>>

\* find_section_start: the match of the first pattern of the list that matches
find_section_start(patterns, text_lower) ==
    LET found == {a \in 1..Len(patterns) :
                     HeadingSearch(text_lower, patterns[a])[1] # NoMatch}
    IN IF found = {} THEN <<NoMatch, NoMatch>>
       ELSE HeadingSearch(text_lower, patterns[Min(found)])

\* text[a:b] and text[a:] for offsets 0 <= a, b
Slice(text, a, b) == SubSeq(text, a + 1, b)
SliceFrom(text, a) == SubSeq(text, a + 1, Len(text))

\* (\d+)\+?\s*  from offset p on: <<the digits, the offset after>> or <<>>
NumberAt(text_lower, p, plus_needed) ==
    LET q == DigitsEnd(text_lower, p + 1)
        has_plus == StartsAt(text_lower, q, Str_plus)
        r == SpacesEnd(text_lower, IF has_plus THEN q + 1 ELSE q)
    IN IF p + 1 > Len(text_lower) \/ q = p + 1 \/ (plus_needed /\ ~has_plus)
       THEN <<>>
       ELSE <<SubSeq(text_lower, p + 1, q - 1), r - 1,
              SpacesEnd(text_lower, q) - 1>>

\* the word, then \s+ : the offset after, or NoMatch
WordThenSpaces(text_lower, p, word) ==
    IF StartsAt(text_lower, p + 1, word)
       /\ SpacesEnd(text_lower, p + 1 + Len(word)) > p + 1 + Len(word)
    THEN SpacesEnd(text_lower, p + 1 + Len(word)) - 1
    ELSE NoMatch

\* (\d+)\+?\s*(?:to|\-|–)\s*(\d+)\+?\s*years?  at offset p: the two groups
RangeYearsAt(text_lower, p) ==
    LET a == NumberAt(text_lower, p, FALSE)
        seps == {w \in {Str_to, Str_dash, Str_en_dash} : StartsAt(text_lower, a[2] + 1, w)}
        sep == CHOOSE w \in seps : TRUE
        b == NumberAt(text_lower, SpacesEnd(text_lower, a[2] + 1 + Len(sep)) - 1, FALSE)
    IN IF a # <<>> /\ seps # {} /\ b # <<>> /\ StartsAt(text_lower, b[2] + 1, Str_year)
       THEN <<a[1], b[1]>>
       ELSE <<>>

\* (\d+)\+\s*years?  at offset p: the group
PlusYearsAt(text_lower, p) ==
    LET a == NumberAt(text_lower, p, TRUE)
    IN IF a # <<>> /\ StartsAt(text_lower, a[2] + 1, Str_year) THEN <<a[1]>> ELSE <<>>

\* minimum\s+of\s+(\d+)\+?\s*years?  and  at\s+least\s+(\d+)\+?\s*years?
TwoWordsYearsAt(text_lower, p, first, second) ==
    LET q == WordThenSpaces(text_lower, p, first)
        r == WordThenSpaces(text_lower, q, second)
        a == NumberAt(text_lower, r, FALSE)
    IN IF q # NoMatch /\ r # NoMatch /\ a # <<>>
          /\ StartsAt(text_lower, a[2] + 1, Str_year)
       THEN <<a[1]>>
       ELSE <<>>

\* (\d+)\s*years?\s+of\s+experience  at offset p
YearsOfExperienceAt(text_lower, p) ==
    LET a == NumberAt(text_lower, p, FALSE)
        y == a[3] + Len(Str_year)
        after(e) == LET o == WordThenSpaces(text_lower, SpacesEnd(text_lower, e + 1) - 1, Str_of)
                    IN /\ SpacesEnd(text_lower, e + 1) > e + 1
                       /\ o # NoMatch
                       /\ StartsAt(text_lower, o + 1, Str_experience)
    IN IF /\ a # <<>>
          /\ StartsAt(text_lower, a[3] + 1, Str_year)
          /\ \/ after(y)
             \/ StartsAt(text_lower, y + 1, Str_s) /\ after(y + 1)
       THEN <<a[1]>>
       ELSE <<>>

\* the groups of the leftmost match of exp_patterns[n], or <<>>
ExpSearch(text_lower, n) ==
    LET at(p) == IF n = 1 THEN RangeYearsAt(text_lower, p)
                 ELSE IF n = 2 THEN PlusYearsAt(text_lower, p)
                 ELSE IF n = 3 THEN TwoWordsYearsAt(text_lower, p, Str_minimum, Str_of)
                 ELSE IF n = 4 THEN TwoWordsYearsAt(text_lower, p, Str_at, Str_least)
                 ELSE YearsOfExperienceAt(text_lower, p)
        hits == {p \in 0..(Len(text_lower) - 1) : at(p) # <<>>}
    IN IF hits = {} THEN <<>> ELSE at(Min(hits))

\* lines 15-31
YearsOfExperience(text_lower) ==
    LET found == {n \in 1..5 : ExpSearch(text_lower, n) # <<>>}
        groups == ExpSearch(text_lower, Min(found))
    IN IF found = {} THEN None
       ELSE IF Len(groups) = 2
       THEN Ok(groups[1] \o Str_dash \o groups[2] \o Str_years_suffix)
       ELSE Ok(groups[1] \o Str_plus_years)

\* the longest field kept whole
field_limit == 2000

\* lines 79-82
Truncate(field) ==
    IF Len(field) > field_limit
    THEN SubSeq(field, 1, field_limit) \o Str_ellipsis
    ELSE field

\* "x if x else None"
OrNone(field) == IF field = <<>> THEN None ELSE Ok(field)

\* variant: the responsibilities heading is taken to come first
SectionsRespFirst(text, resp, skill) ==
    IF resp[1] # NoMatch /\ skill[1] # NoMatch
    THEN [responsibilities |-> Strip(Slice(text, resp[2], skill[1])),
          skills |-> Strip(SliceFrom(text, skill[2]))]
    ELSE IF resp[1] # NoMatch
    THEN [responsibilities |-> Strip(SliceFrom(text, resp[2])), skills |-> <<>>]
    ELSE IF skill[1] # NoMatch
    THEN [responsibilities |-> <<>>, skills |-> Strip(SliceFrom(text, skill[2]))]
    ELSE [responsibilities |-> <<>>, skills |-> <<>>]

\* lines 62-76, resp and skill being what find_section_start returned
Sections(text, resp, skill) ==
    IF resp[1] # NoMatch /\ skill[1] # NoMatch
    THEN IF resp[1] < skill[1]
         THEN [responsibilities |-> Strip(Slice(text, resp[2], skill[1])),
               skills |-> Strip(SliceFrom(text, skill[2]))]
         ELSE [responsibilities |-> Strip(SliceFrom(text, resp[2])),
               skills |-> Strip(Slice(text, skill[2], resp[1]))]
    ELSE IF resp[1] # NoMatch
    THEN [responsibilities |-> Strip(SliceFrom(text, resp[2])), skills |-> <<>>]
    ELSE IF skill[1] # NoMatch
    THEN [responsibilities |-> <<>>, skills |-> Strip(SliceFrom(text, skill[2]))]
    ELSE [responsibilities |-> <<>>, skills |-> <<>>]

parse_job_description(text) ==
    IF text = <<>>
    THEN [responsibilities |-> None, skills |-> None, years_of_experience |-> None]
    ELSE LET text_lower == Lower(text)
             sections == Sections(text,
                                  find_section_start(resp_patterns, text_lower),
                                  find_section_start(skill_patterns, text_lower))
         IN [responsibilities |-> OrNone(Truncate(sections.responsibilities)),
             skills |-> OrNone(Truncate(sections.skills)),
             years_of_experience |-> YearsOfExperience(text_lower)]

\* ------------------------------------------------------------ the sites
\* What the browser shows. Cards(platform, location) is the search result
\* page, every card with its title and link; Responses(link) is what a visit
\* of a detail page can end in:
\*   [kind |-> "page", page_title, title, company, has_loc, loc, date_text]
\*   [kind |-> "timeout"]      goto raises
\*   [kind |-> "notloaded"]    no detail selector appears
\*   [kind |-> "launchfail"]   the browser of the visit does not start

Card(link, title) == [link |-> link, title |-> title]

Cards(platform, location) ==
    IF platform = "linkedin" /\ location = Str_Berlin
    THEN <<Card("li/1", Str_sre), Card("li/9", Str_qa), Card("li/1", Str_sre),
           Card("li/8", Str_sre)>>
    ELSE IF platform = "linkedin" /\ location = Str_US
    THEN <<Card("li/1", Str_sre), Card("li/2", Str_sre), Card("li/3", Str_sre),
           Card("li/4", Str_sre), Card("li/5", Str_sre), Card("li/6", Str_sre),
           Card("li/7", Str_sre)>>
    ELSE IF platform = "glassdoor" /\ location = Str_Berlin
    THEN <<Card("gd/1", Str_sre)>>
    ELSE IF platform = "glassdoor" /\ location = Str_US
    THEN <<Card("gd/2", Str_sre), Card("gd/3", Str_sre)>>
    ELSE IF platform = "naukri" /\ location = Str_Berlin
    THEN <<Card("nk/1", Str_sre)>>
    ELSE <<>>

Page(page_title, title, company, has_loc, loc) ==
    [kind |-> "page", page_title |-> page_title, title |-> title,
     company |-> company, has_loc |-> has_loc, loc |-> loc, date_text |-> None]
\* the page with a date element of that text
Dated(page, date_text) == [page EXCEPT !.date_text = Ok(date_text)]
Str_30_days_ago == <<"3","0"," ","d","a","y","s"," ","a","g","o">>
Str_2_days_ago == <<"2"," ","d","a","y","s"," ","a","g","o">>
Str_24h == <<"2","4","h">>
Timeout == [kind |-> "timeout"]
NotLoaded == [kind |-> "notloaded"]
LaunchFail == [kind |-> "launchfail"]

Responses(link) ==
    IF link = "li/1" THEN {Dated(Page(Str_sre, "SRE", "Acme", FALSE, Str_empty), Str_2_days_ago)}
    ELSE IF link = "li/2" THEN {Page(Str_SignUp, "Sign Up", "Unknown", FALSE, Str_empty)}
    ELSE IF link = "li/8" THEN {Dated(Page(Str_sre, "SRE", "Hive", TRUE, Str_Munich), Str_30_days_ago)}
    ELSE IF link = "li/3" THEN {Timeout}
    ELSE IF link = "li/4" THEN {Page(Str_Join, "Join LinkedIn", "Unknown", FALSE, Str_empty)}
    ELSE IF link \in {"li/5", "li/6", "li/7"} THEN {Timeout}
    ELSE IF link = "gd/1" THEN {Page(Str_sre, "SRE", "Bolt", TRUE, Str_Berlin), Timeout}
    ELSE IF link = "gd/2" THEN {Dated(Page(Str_sre, "SRE", "Cargo", TRUE, Str_Austin), Str_24h)}
    ELSE IF link = "gd/3" THEN {Page(Str_sre, "SRE", "Dash", TRUE, Str_Munich)}
    ELSE IF link = "nk/1" THEN {Page(Str_sre, "SRE", "Edge", FALSE, Str_empty), LaunchFail}
    ELSE {NotLoaded}

\* ------------------------------------------------------- the listing pass
\* The card loop of scrape over the cards the page shows: a card is skipped
\* when its title does not match the keyword or its link is already
\* collected, and the loop stops at limit links.
\* variant: the loop over the cards breaks one link late
LimitReachedLate(collected_links, limit) == Len(collected_links) > limit

\* "if len(collected_links) >= limit: break"
LimitReached(collected_links, limit) == Len(collected_links) >= limit

\* variant: no link counts as collected
AlreadyCollectedNever(link, collected_links) == FALSE

\* "if any(l == link for l in collected_links): continue"
AlreadyCollected(link, collected_links) ==
    \E k \in 1..Len(collected_links) : collected_links[k] = link

\* variant: the title of the card is not tested
CardStepAnyTitle(card, keyword, collected_links) ==
    IF AlreadyCollected(card.link, collected_links)
    THEN collected_links
    ELSE Append(collected_links, card.link)

\* the body of the loop over the cards, for one card
CardStep(card, keyword, collected_links) ==
    IF ~keyword_matches(card.title, keyword)
       \/ AlreadyCollected(card.link, collected_links)
    THEN collected_links
    ELSE Append(collected_links, card.link)

RECURSIVE CollectLinks(_, _, _, _)
CollectLinks(cards, keyword, limit, collected_links) ==
    IF cards = <<>> \/ LimitReached(collected_links, limit) THEN collected_links
    ELSE CollectLinks(Tail(cards), keyword, limit,
                      CardStep(Head(cards), keyword, collected_links))

\* --------------------------------------------------------- fetch_job_detail

JobListing(title, company, location, url, platform, posted_date) ==
    [title |-> title, company |-> company, location |-> location,
     url |-> url, platform |-> platform, posted_date |-> posted_date]

\* the day the run takes place on: what datetime.now() returns, 2026-11-03
now == ToOrdinal(2026, 11, 3)

\* the date texts the pages show
DateTexts == {Str_2_days_ago, Str_30_days_ago, Str_24h}

\* what parse_relative_date makes of each of them on the day of the run
ParsedDateTexts ==
    [date_text \in DateTexts |-> parse_relative_date(Strip(date_text), now)]

\* "Extract posted date": None when the page has no date element or when
\* parse_relative_date raises, else what parse_relative_date returns
PostedDate(resp) ==
    IF resp.date_text = None THEN None
    ELSE LET parsed == ParsedDateTexts[resp.date_text.val]
         IN IF parsed.kind = "return" THEN Ok(parsed.val) ELSE None

\* LinkedinScraper.scrape.fetch_job_detail
LinkedinLoginWall(resp) ==
    \/ Contains(resp.page_title, Str_Join)
    \/ Contains(resp.page_title, Str_Sign)
    \/ Contains(resp.page_title, Str_Log)
    \/ resp.title \in {"Join LinkedIn", "Sign in", "Log in"}

LinkedinFetchJobDetail(location, link, resp) ==
    IF resp.kind # "page" THEN None
    ELSE IF LinkedinLoginWall(resp) THEN None
    ELSE Ok(JobListing(resp.title, resp.company,
                       IF resp.has_loc THEN resp.loc ELSE location,
                       link, "LinkedIn", PostedDate(resp)))

\* GlassdoorScraper.scrape.fetch_job_detail
location_matches(loc, location) ==
    LET loc_lower == Lower(loc)
        location_lower == Lower(location)
        words == Split(location_lower)
    IN \/ Contains(loc_lower, Str_remote)
       \/ Contains(loc_lower, location_lower)
       \/ \E k \in 1..Len(words) : Contains(loc_lower, words[k])

\* variant: the exception of a page that does not load leaves the worker
GlassdoorFetchJobDetailRaises(location, link, resp) ==
    IF resp.kind = "timeout" THEN Raise
    ELSE IF resp.kind # "page" THEN None
    ELSE LET loc == IF resp.has_loc THEN resp.loc ELSE location IN
         IF ~location_matches(loc, location) THEN None
         ELSE Ok(JobListing(resp.title, resp.company, loc, link, "Glassdoor",
                            PostedDate(resp)))

GlassdoorFetchJobDetail(location, link, resp) ==
    IF resp.kind # "page" THEN None
    ELSE LET loc == IF resp.has_loc THEN resp.loc ELSE location IN
         IF ~location_matches(loc, location) THEN None
         ELSE Ok(JobListing(resp.title, resp.company, loc, link, "Glassdoor",
                            PostedDate(resp)))

\* NaukriScraper.scrape.fetch_job_detail: webdriver.Chrome() is called before
\* the try block, so a browser that does not start raises out of the worker
NaukriFetchJobDetail(location, link, resp) ==
    IF resp.kind = "launchfail" THEN Raise
    ELSE IF resp.kind # "page" THEN None
    ELSE Ok(JobListing(resp.title, resp.company,
                       IF resp.has_loc THEN resp.loc ELSE location,
                       link, "Naukri", PostedDate(resp)))

\* variant: a visit that gets no page makes the record from the search card
fetch_job_detail_or_card(platform, location, link, resp) ==
    IF resp.kind # "page"
    THEN Ok(JobListing("Unknown", "Unknown", location, link, platform, None))
    ELSE IF platform = "linkedin" THEN LinkedinFetchJobDetail(location, link, resp)
    ELSE IF platform = "glassdoor" THEN GlassdoorFetchJobDetail(location, link, resp)
    ELSE NaukriFetchJobDetail(location, link, resp)

fetch_job_detail(platform, location, link, resp) ==
    IF platform = "linkedin" THEN LinkedinFetchJobDetail(location, link, resp)
    ELSE IF platform = "glassdoor" THEN GlassdoorFetchJobDetail(location, link, resp)
    ELSE NaukriFetchJobDetail(location, link, resp)

\* ------------------------------------------------------- browser sessions
\* The browsers of a task: the one scrape opens for its listing pass,
\* "none" | "open" | "closed", and those its visits opened: how many were
\* opened, and how many were still open when their fetch_job_detail returned.
NoSession == [listing |-> "none", opened |-> 0, open |-> 0]

\* "finally: browser.close()" of LinkedIn and Glassdoor, "finally:
\* driver.quit()" of Naukri
ScrapeFinally(session) == "closed"

\* the path of a visit reaches browser.close() or driver.quit()
VisitCloses(platform, resp) ==
    IF platform = "linkedin" THEN resp.kind = "page"
    ELSE IF platform = "glassdoor" THEN resp.kind \in {"page", "notloaded"}
    ELSE TRUE

\* variant: the browser outlives the Playwright instance that launched it
PlaywrightStopLeavesBrowser(browser_open) == browser_open

\* leaving "with sync_playwright() as p": Playwright is stopped, and the
\* browser it launched with it; the result is whether the browser is open
PlaywrightStop(browser_open) == FALSE

\* the browser of a visit is open when fetch_job_detail returns
VisitLeavesOpen(platform, resp) ==
    IF platform = "naukri" THEN ~VisitCloses(platform, resp)
    ELSE PlaywrightStop(~VisitCloses(platform, resp))

VisitSessions(session, platform, location, resp) ==
    IF resp.kind = "launchfail" THEN session
    ELSE [session EXCEPT
             !.opened = @ + 1,
             !.open = @ + (IF VisitLeavesOpen(platform, resp) THEN 1 ELSE 0)]

VARIABLES
    pf,           \* SpecPF: the parallel_fetch call
    hist,         \* SpecPF: per item, the outcomes of its worker calls, oldest first
    args,         \* main: the parsed command line
    main_pc,      \* main: "validate" | "submit" | "drain" | "loop" | "insert" | "exited"
    exit_code,    \* main: the process's exit status once main_pc = "exited"
    tasks,        \* main: the (platform, keyword, location, limit, days) tuples
    pool_queue,   \* main's executor: submitted tasks no pool thread has picked up
    tphase,       \* per task: "queued" | "listing" | "detail" | "done" | "drained"
    tfail,        \* per task: how scrape_platform_location failed, or "no"
    tpf,          \* per task: the parallel_fetch call of its detail phase
    tjobs,        \* per task: what its future holds, the list scrape_platform_location returned
    visits,       \* per task and link: what each visit of the detail page ended in, oldest first
    sessions,     \* per task: the browser of its listing pass, and the browsers its visits opened
    cur,          \* main: the task whose future the as_completed loop is handling (0: none)
    jobs,         \* main: jobs = future.result()
    j,            \* main: the position of "for job in jobs"
    unique_jobs,  \* main: unique_jobs
    removed,      \* main: per task, the duplicates count it logged
    all_jobs,     \* main: all_jobs
    seen_urls,    \* main: seen_urls
    exported,     \* what export_to_csv and export_to_json were given
    summary,      \* main: the "Jobs per platform" statistics it logged
    run,          \* SpecTwice: 1 for the first run of main, 2 for the second
    prev,         \* SpecTwice: what the first run exported, and what its source answered
    listing,      \* SpecList: the listing pass of one scrape call
    registry,     \* ScraperRegistry._scrapers, in the order of its keys
    call,         \* SpecReg, SpecFn: the call of a registry method or a utility function
    ret           \* SpecReg, SpecFn: what that call returned or raised

pfvars == <<pf, hist>>
mainvars == <<args, main_pc, exit_code, tasks, pool_queue, tphase, tfail, tpf,
              tjobs, visits, sessions, cur, jobs, j, unique_jobs, removed, all_jobs,
              seen_urls,
              exported, summary>>
twicevars == <<run, prev>>
listvars == <<listing>>
utilvars == <<registry, call, ret>>
vars == <<pfvars, mainvars, twicevars, listvars, utilvars>>

\* lines 207-214: platform_stats, the count of the jobs of every platform
\* that has a job in the list
PlatformStats(job_list) ==
    [p \in {job_list[k].platform : k \in 1..Len(job_list)} |->
        Cardinality({k \in 1..Len(job_list) : job_list[k].platform = p})]

\* the statistics were not logged
NoSummary == [printed |-> FALSE, platform_stats |-> <<>>]

\* no listing pass is modelled
IdleListing == [lpc |-> "idle"]

\* no earlier run
NoRun == [exported |-> <<>>, tfail |-> <<>>, visits |-> <<>>]

\* a parallel_fetch record for a task that has not reached its detail phase
\* no call of a registry method or utility function is being looked at
NoCall == [fn |-> "none"]
NoReturn == [kind |-> "pending", val |-> "None"]

UtilIdle ==
    /\ registry = RegistryAfterImport
    /\ call = NoCall
    /\ ret = NoReturn

IdlePF == [PFCall(<<>>, NoneArg, NoneArg) EXCEPT !.pc = "idle"]

\* the orchestrator's variables while SpecPF runs parallel_fetch alone
MainIdle ==
    /\ args = [platform |-> <<>>, location |-> <<>>, keyword |-> <<>>,
               limit |-> 0, days |-> 0, workers |-> 0]
    /\ main_pc = "idle"
    /\ exit_code = 0
    /\ tasks = <<>>
    /\ pool_queue = <<>>
    /\ tphase = <<>>
    /\ tfail = <<>>
    /\ tpf = <<>>
    /\ tjobs = <<>>
    /\ visits = <<>>
    /\ sessions = <<>>
    /\ cur = 0
    /\ jobs = <<>>
    /\ j = 0
    /\ unique_jobs = <<>>
    /\ removed = <<>>
    /\ all_jobs = <<>>
    /\ seen_urls = {}
    /\ exported = <<>>
    /\ summary = NoSummary
    /\ run = 1
    /\ prev = NoRun

\* ------------------------------------------------------------------- SpecPF

Outcomes == {"ok", "none", "raise"}

WorkerResult(item, kind) ==
    IF kind = "ok" THEN Ok(item) ELSE IF kind = "none" THEN None ELSE Raise

InitPF ==
    \E n \in 0..MaxItems, w \in (1..MaxPool) \cup {NoneArg},
       r \in (0..MaxRetry) \cup {NoneArg} :
        /\ pf = PFCall([i \in 1..n |-> i], w, r)
        /\ hist = [i \in 1..n |-> <<>>]
        /\ listing = IdleListing
        /\ UtilIdle
        /\ MainIdle

PFStartStep ==
    /\ PFCanStart(pf)
    /\ pf' = PFStart(pf)
    /\ UNCHANGED <<hist, mainvars, twicevars, listvars, utilvars>>

PFFinishStep ==
    \E item \in pf.running, kind \in Outcomes :
        /\ pf' = PFFinish(pf, item, WorkerResult(item, kind))
        /\ hist' = [hist EXCEPT ![item] = Append(@, kind)]
        /\ UNCHANGED <<mainvars, twicevars, listvars, utilvars>>

PFCollectStep ==
    \E c \in pf.completed :
        /\ pf.pc = "running"
        /\ pf' = PFCollect(pf, c)
        /\ UNCHANGED <<hist, mainvars, twicevars, listvars, utilvars>>

PFPassEndStep ==
    /\ PFPassOver(pf)
    /\ pf' = PFPassEnd(pf)
    /\ UNCHANGED <<hist, mainvars, twicevars, listvars, utilvars>>

NextPF == PFStartStep \/ PFFinishStep \/ PFCollectStep \/ PFPassEndStep

SpecPF == InitPF /\ [][NextPF]_vars

SpecPFFair == SpecPF /\ WF_vars(NextPF)

\* --------------------------------------------------------------------- Spec
\* main over the sites above. The command lines tried:

MaxLimit == 2
MaxWorkers == 2

\* --platform (<<>>: not given), --location, --keyword, --days
PlatformArgs ==
    {<<>>, <<"linkedin">>, <<"glassdoor">>, <<"naukri">>,
     <<"linkedin", "glassdoor">>, <<"naukri", "indeed">>}
LocationArgs == {<<Str_Berlin>>, <<Str_US>>, <<Str_Berlin, Str_US>>}
KeywordArgs == {Str_sre, Str_empty}
DaysArgs == {0, 7}

\* the --platform and --location lists of the runs: several platforms or
\* several locations, and one run with both
CommandLines ==
    {c \in PlatformArgs \X LocationArgs : Len(c[1]) = 1 \/ Len(c[2]) = 1}
        \cup {<<<<"naukri", "indeed">>, <<Str_Berlin, Str_US>>>>}

\* line 132
PlatformsOf(a) ==
    IF a.platform # <<>> THEN a.platform
    ELSE <<"linkedin", "glassdoor", "naukri">>

\* lines 150-153: platform-major, one tuple per (platform, location)
BuildTasks(a) ==
    LET platforms == PlatformsOf(a)
        locations == a.location
        n == Len(platforms) * Len(locations)
    IN [k \in 1..n |->
          [platform |-> platforms[((k - 1) \div Len(locations)) + 1],
           keyword |-> a.keyword,
           location |-> locations[((k - 1) % Len(locations)) + 1],
           limit |-> a.limit,
           days |-> a.days]]

\* main is entered: nothing of the run exists yet
MainEntered ==
    /\ main_pc = "validate"
    /\ exit_code = 0
    /\ tasks = <<>>
    /\ pool_queue = <<>>
    /\ tphase = <<>>
    /\ tfail = <<>>
    /\ tpf = <<>>
    /\ tjobs = <<>>
    /\ visits = <<>>
    /\ sessions = <<>>
    /\ cur = 0
    /\ jobs = <<>>
    /\ j = 0
    /\ unique_jobs = <<>>
    /\ removed = <<>>
    /\ all_jobs = <<>>
    /\ seen_urls = {}
    /\ exported = <<>>
    /\ summary = NoSummary

InitMain ==
    /\ \E c \in CommandLines, k \in KeywordArgs,
          lim \in 0..MaxLimit, d \in DaysArgs, w \in 0..MaxWorkers :
        args = [platform |-> c[1], location |-> c[2], keyword |-> k,
                limit |-> lim, days |-> d, workers |-> w]
    /\ MainEntered

Init ==
    /\ InitMain
    /\ pf = IdlePF
    /\ hist = <<>>
    /\ listing = IdleListing
    /\ UtilIdle
    /\ run = 1
    /\ prev = NoRun

\* variant: --workers is not validated
ArgsInvalidWorkersUnchecked(a) == a.limit <= 0 \/ a.days <= 0

\* lines 119-129
ArgsInvalid(a) == a.limit <= 0 \/ a.days <= 0 \/ a.workers <= 0

MainValidate ==
    /\ main_pc = "validate"
    /\ IF ArgsInvalid(args)
       THEN main_pc' = "exited" /\ exit_code' = 1
       ELSE main_pc' = "submit" /\ UNCHANGED exit_code
    /\ UNCHANGED <<pfvars, twicevars, listvars, utilvars, visits, sessions, args, tasks, pool_queue, tphase, tfail, tpf, tjobs, cur, jobs,
                   j, unique_jobs, removed, all_jobs, seen_urls, exported, summary>>

\* lines 146-162: the task list, and every task submitted to the executor
MainSubmit ==
    /\ main_pc = "submit"
    /\ tasks' = BuildTasks(args)
    /\ pool_queue' = [t \in 1..Len(tasks') |-> t]
    /\ tphase' = [t \in 1..Len(tasks') |-> "queued"]
    /\ tfail' = [t \in 1..Len(tasks') |-> "no"]
    /\ tpf' = [t \in 1..Len(tasks') |-> IdlePF]
    /\ tjobs' = [t \in 1..Len(tasks') |-> <<>>]
    /\ visits' = [t \in 1..Len(tasks') |-> <<>>]
    /\ sessions' = [t \in 1..Len(tasks') |-> NoSession]
    /\ removed' = [t \in 1..Len(tasks') |-> 0]
    /\ all_jobs' = <<>>
    /\ seen_urls' = {}
    /\ main_pc' = "drain"
    /\ UNCHANGED <<pfvars, twicevars, listvars, utilvars, args, exit_code, cur, jobs, j, unique_jobs, exported, summary>>

\* the tasks a thread of main's executor is executing
RunningTasks == {t \in DOMAIN tphase : tphase[t] \in {"listing", "detail"}}

\* variant: a task that fails never completes its future
TaskEndsHangs(t, result, failure) ==
    /\ tphase' = [tphase EXCEPT ![t] = IF failure = "no" THEN "done" ELSE "hung"]
    /\ tjobs' = [tjobs EXCEPT ![t] = result]
    /\ tfail' = [tfail EXCEPT ![t] = failure]

\* scrape_platform_location ends: its future holds what it returned
TaskEnds(t, result, failure) ==
    /\ tphase' = [tphase EXCEPT ![t] = "done"]
    /\ tjobs' = [tjobs EXCEPT ![t] = result]
    /\ tfail' = [tfail EXCEPT ![t] = failure]

\* A pool thread of main picks the oldest queued task up and runs
\* scrape_platform_location to the first page load of scrape: create_scraper
\* (KeyError), validate_config (ScraperConfigError) and the browser launch
\* (any exception) each end the task with [] (main.py lines 50-55).
TaskStart(t) ==
    /\ pool_queue # <<>>
    /\ Head(pool_queue) = t
    /\ PoolHasFreeThread(RunningTasks, args.workers)
    /\ pool_queue' = Tail(pool_queue)
    /\ LET task == tasks[t] IN
       IF ~RegistryKnows(task.platform)
       THEN TaskEnds(t, <<>>, "unknown platform")
       ELSE IF ConfigInvalid(task.keyword, task.location, task.limit, task.days)
       THEN TaskEnds(t, <<>>, "config")
       ELSE \/ TaskEnds(t, <<>>, "launch")
            \/ /\ tphase' = [tphase EXCEPT ![t] = "listing"]
               /\ UNCHANGED <<tjobs, tfail>>
    /\ sessions' = [sessions EXCEPT ![t].listing =
                       IF tphase'[t] = "listing" THEN "open" ELSE @]
    /\ UNCHANGED <<pfvars, twicevars, listvars, utilvars, visits, args, main_pc, exit_code, tasks, tpf, cur, jobs, j,
                   unique_jobs, removed, all_jobs, seen_urls, exported, summary>>

\* scrape: the search page is loaded and its cards are collected, then
\* parallel_fetch(fetch_job_detail, collected_links, max_workers=5) is called;
\* a page that does not load ends scrape with no jobs.
TaskList(t) ==
    /\ tphase[t] = "listing"
    /\ \/ /\ TaskEnds(t, <<>>, "listing")
          /\ sessions' = [sessions EXCEPT ![t].listing = ScrapeFinally(@)]
          /\ UNCHANGED <<tpf, visits>>
       \/ /\ LET task == tasks[t]
                 collected_links ==
                     CollectLinks(Cards(task.platform, task.location),
                                  task.keyword, task.limit, <<>>)
             IN /\ tpf' = [tpf EXCEPT ![t] = PFCall(collected_links, detail_workers, NoneArg)]
                /\ visits' = [visits EXCEPT ![t] = [l \in Range(collected_links) |-> <<>>]]
          /\ tphase' = [tphase EXCEPT ![t] = "detail"]
          /\ UNCHANGED <<tjobs, tfail, sessions>>
    /\ UNCHANGED <<pfvars, twicevars, listvars, utilvars, args, main_pc, exit_code, tasks, pool_queue, cur, jobs, j,
                   unique_jobs, removed, all_jobs, seen_urls, exported, summary>>

DetailFrame ==
    UNCHANGED <<pfvars, twicevars, listvars, utilvars, args, main_pc, exit_code, tasks, pool_queue, tphase, tfail, tjobs,
                cur, jobs, j, unique_jobs, removed, all_jobs, seen_urls, exported, summary>>

\* the detail phase of task t: parallel_fetch over fetch_job_detail
DetailStart(t) ==
    /\ tphase[t] = "detail"
    /\ PFCanStart(tpf[t])
    /\ tpf' = [tpf EXCEPT ![t] = PFStart(tpf[t])]
    /\ UNCHANGED <<visits, sessions>>
    /\ DetailFrame

DetailFinish(t) ==
    /\ tphase[t] = "detail"
    /\ \E link \in tpf[t].running : \E resp \in Responses(link) :
         /\ tpf' = [tpf EXCEPT ![t] =
                      PFFinish(tpf[t], link,
                               fetch_job_detail(tasks[t].platform, tasks[t].location,
                                                link, resp))]
         /\ visits' = [visits EXCEPT ![t][link] = Append(@, resp)]
         /\ sessions' = [sessions EXCEPT ![t] =
                            VisitSessions(@, tasks[t].platform, tasks[t].location, resp)]
    /\ DetailFrame

DetailCollect(t) ==
    /\ tphase[t] = "detail"
    /\ tpf[t].pc = "running"
    /\ \E c \in tpf[t].completed : tpf' = [tpf EXCEPT ![t] = PFCollect(tpf[t], c)]
    /\ UNCHANGED <<visits, sessions>>
    /\ DetailFrame

DetailPassEnd(t) ==
    /\ tphase[t] = "detail"
    /\ PFPassOver(tpf[t])
    /\ tpf' = [tpf EXCEPT ![t] = PFPassEnd(tpf[t])]
    /\ UNCHANGED <<visits, sessions>>
    /\ DetailFrame

\* variant: the worker thread marks the urls it returns as seen
TaskReturnMarksSeen(t) ==
    /\ tphase[t] = "detail"
    /\ tpf[t].pc \in {"returned", "raised"}
    /\ IF tpf[t].pc = "returned"
       THEN /\ TaskEnds(t, tpf[t].results, "no")
            /\ seen_urls' = seen_urls \cup {tpf[t].results[k].url : k \in 1..Len(tpf[t].results)}
       ELSE /\ TaskEnds(t, <<>>, "detail")
            /\ UNCHANGED seen_urls
    /\ sessions' = [sessions EXCEPT ![t].listing = ScrapeFinally(@)]
    /\ UNCHANGED <<pfvars, twicevars, listvars, utilvars, visits, args, main_pc, exit_code, tasks, pool_queue, tpf, cur, jobs, j,
                   unique_jobs, removed, all_jobs, exported, summary>>

\* scrape returns jobs, scrape_platform_location returns them (lines 47-49);
\* an exception out of parallel_fetch is caught by scrape, which returns []
TaskReturn(t) ==
    /\ tphase[t] = "detail"
    /\ tpf[t].pc \in {"returned", "raised"}
    /\ IF tpf[t].pc = "returned"
       THEN TaskEnds(t, tpf[t].results, "no")
       ELSE TaskEnds(t, <<>>, "detail")
    /\ sessions' = [sessions EXCEPT ![t].listing = ScrapeFinally(@)]
    /\ UNCHANGED <<pfvars, twicevars, listvars, utilvars, visits, args, main_pc, exit_code, tasks, pool_queue, tpf, cur, jobs, j,
                   unique_jobs, removed, all_jobs, seen_urls, exported, summary>>

\* variant: main submits a task again when its future holds no job
DrainBeginResubmitsEmpty(t) ==
    /\ main_pc = "drain"
    /\ tphase[t] = "done"
    /\ IF tjobs[t] = <<>>
       THEN /\ tphase' = [tphase EXCEPT ![t] = "queued"]
            /\ pool_queue' = Append(pool_queue, t)
            /\ UNCHANGED <<cur, jobs, j, unique_jobs, main_pc>>
       ELSE /\ tphase' = [tphase EXCEPT ![t] = "drained"]
            /\ cur' = t
            /\ jobs' = tjobs[t]
            /\ j' = 1
            /\ unique_jobs' = <<>>
            /\ main_pc' = "loop"
            /\ UNCHANGED pool_queue
    /\ UNCHANGED <<pfvars, twicevars, listvars, utilvars, visits, sessions, args, exit_code, tasks, tfail, tpf, tjobs, removed,
                   all_jobs, seen_urls, exported, summary>>

\* lines 164-172: as_completed yields a finished future; jobs = future.result()
DrainBegin(t) ==
    /\ main_pc = "drain"
    /\ tphase[t] = "done"
    /\ tphase' = [tphase EXCEPT ![t] = "drained"]
    /\ cur' = t
    /\ jobs' = tjobs[t]
    /\ j' = 1
    /\ unique_jobs' = <<>>
    /\ main_pc' = "loop"
    /\ UNCHANGED <<pfvars, twicevars, listvars, utilvars, visits, sessions, args, exit_code, tasks, pool_queue, tfail, tpf, tjobs, removed,
                   all_jobs, seen_urls, exported, summary>>

\* variant: every job of the task is taken as unseen
DrainCheckNoTest ==
    /\ main_pc = "loop"
    /\ j <= Len(jobs)
    /\ main_pc' = "insert"
    /\ UNCHANGED <<pfvars, twicevars, listvars, utilvars, visits, sessions, args, exit_code, tasks, pool_queue, tphase, tfail, tpf, tjobs,
                   cur, j, jobs, unique_jobs, removed, all_jobs, seen_urls, exported, summary>>

\* line 174: the test of "if job.url not in seen_urls" for the next job
DrainCheck ==
    /\ main_pc = "loop"
    /\ j <= Len(jobs)
    /\ IF jobs[j].url \notin seen_urls
       THEN main_pc' = "insert" /\ UNCHANGED j
       ELSE main_pc' = "loop" /\ j' = j + 1
    /\ UNCHANGED <<pfvars, twicevars, listvars, utilvars, visits, sessions, args, exit_code, tasks, pool_queue, tphase, tfail, tpf, tjobs,
                   cur, jobs, unique_jobs, removed, all_jobs, seen_urls, exported, summary>>

\* variant: the url of a job kept is not marked as seen
DrainInsertUrlNotMarked ==
    /\ main_pc = "insert"
    /\ unique_jobs' = Append(unique_jobs, jobs[j])
    /\ j' = j + 1
    /\ main_pc' = "loop"
    /\ UNCHANGED <<pfvars, twicevars, listvars, utilvars, visits, sessions, args, exit_code, tasks, pool_queue, tphase, tfail, tpf, tjobs,
                   cur, jobs, removed, all_jobs, seen_urls, exported, summary>>

\* lines 175-176
DrainInsert ==
    /\ main_pc = "insert"
    /\ seen_urls' = seen_urls \cup {jobs[j].url}
    /\ unique_jobs' = Append(unique_jobs, jobs[j])
    /\ j' = j + 1
    /\ main_pc' = "loop"
    /\ UNCHANGED <<pfvars, twicevars, listvars, utilvars, visits, sessions, args, exit_code, tasks, pool_queue, tphase, tfail, tpf, tjobs,
                   cur, jobs, removed, all_jobs, exported, summary>>

\* variant: the duplicates count is the count of the jobs kept
DrainEndCountsKept ==
    /\ main_pc = "loop"
    /\ j > Len(jobs)
    /\ removed' = [removed EXCEPT ![cur] = Len(unique_jobs)]
    /\ all_jobs' = all_jobs \o unique_jobs
    /\ cur' = 0
    /\ jobs' = <<>>
    /\ j' = 0
    /\ unique_jobs' = <<>>
    /\ main_pc' = "drain"
    /\ UNCHANGED <<pfvars, twicevars, listvars, utilvars, visits, sessions, args, exit_code, tasks, pool_queue, tphase, tfail, tpf, tjobs,
                   seen_urls, exported, summary>>

\* lines 178-182: the duplicates count, all_jobs.extend(unique_jobs)
DrainEnd ==
    /\ main_pc = "loop"
    /\ j > Len(jobs)
    /\ removed' = [removed EXCEPT ![cur] = Len(jobs) - Len(unique_jobs)]
    /\ all_jobs' = all_jobs \o unique_jobs
    /\ cur' = 0
    /\ jobs' = <<>>
    /\ j' = 0
    /\ unique_jobs' = <<>>
    /\ main_pc' = "drain"
    /\ UNCHANGED <<pfvars, twicevars, listvars, utilvars, visits, sessions, args, exit_code, tasks, pool_queue, tphase, tfail, tpf, tjobs,
                   seen_urls, exported, summary>>

\* lines 187-228: every future was handled; the export, or "No jobs found!"
MainExport ==
    /\ main_pc = "drain"
    /\ \A t \in DOMAIN tphase : tphase[t] = "drained"
    /\ main_pc' = "exited"
    /\ IF all_jobs # <<>>
       THEN \/ /\ exported' = all_jobs
               /\ summary' = [printed |-> TRUE, platform_stats |-> PlatformStats(all_jobs)]
               /\ exit_code' = 0
            \/ /\ exported' = <<>>
               /\ exit_code' = 1
               /\ UNCHANGED summary
       ELSE UNCHANGED <<exported, summary, exit_code>>
    /\ UNCHANGED <<pfvars, twicevars, listvars, utilvars, visits, sessions, args, tasks, pool_queue, tphase, tfail, tpf, tjobs, cur, jobs,
                   j, unique_jobs, removed, all_jobs, seen_urls>>

Next ==
    \/ MainValidate
    \/ MainSubmit
    \/ \E t \in DOMAIN tphase : DrainBegin(t)
    \/ DrainCheck
    \/ DrainInsert
    \/ DrainEnd
    \/ MainExport
    \/ \E t \in DOMAIN tphase : TaskStart(t)
    \/ \E t \in DOMAIN tphase : TaskList(t)
    \/ \E t \in DOMAIN tphase : TaskReturn(t)
    \/ \E t \in DOMAIN tphase : DetailStart(t)
    \/ \E t \in DOMAIN tphase : DetailFinish(t)
    \/ \E t \in DOMAIN tphase : DetailCollect(t)
    \/ \E t \in DOMAIN tphase : DetailPassEnd(t)

Spec == Init /\ [][Next]_vars

\* ----------------------------------------------------------------- SpecLoad
\* main run on a search whose result page holds more cards than a detail
\* pool has threads, with --limit above the pool size.
InitLoad ==
    /\ \E l \in {<<Str_US>>, <<Str_US, Str_Berlin>>}, w \in 1..MaxWorkers :
        args = [platform |-> <<"linkedin">>, location |-> l, keyword |-> Str_sre,
                limit |-> detail_workers + 1, days |-> 7, workers |-> w]
    /\ MainEntered
    /\ pf = IdlePF
    /\ hist = <<>>
    /\ listing = IdleListing
    /\ UtilIdle
    /\ run = 1
    /\ prev = NoRun

SpecLoad == InitLoad /\ [][Next]_vars

\* ---------------------------------------------------------------- SpecTwice
\* main run twice with the same command line.
InitTwice ==
    /\ \E p \in {<<"linkedin">>, <<"glassdoor">>}, l \in LocationArgs,
          lim \in 1..MaxLimit, w \in 1..MaxWorkers :
        args = [platform |-> p, location |-> l, keyword |-> Str_sre,
                limit |-> lim, days |-> 7, workers |-> w]
    /\ MainEntered
    /\ pf = IdlePF
    /\ hist = <<>>
    /\ listing = IdleListing
    /\ UtilIdle
    /\ run = 1
    /\ prev = NoRun

\* the first run has exited with its file written: main is entered again
\* with the same arguments
Rerun ==
    /\ run = 1
    /\ main_pc = "exited"
    /\ exit_code = 0
    /\ exported # <<>>
    /\ run' = 2
    /\ prev' = [exported |-> exported, tfail |-> tfail, visits |-> visits]
    /\ main_pc' = "validate"
    /\ exit_code' = 0
    /\ tasks' = <<>>
    /\ pool_queue' = <<>>
    /\ tphase' = <<>>
    /\ tfail' = <<>>
    /\ tpf' = <<>>
    /\ tjobs' = <<>>
    /\ visits' = <<>>
    /\ sessions' = <<>>
    /\ cur' = 0
    /\ jobs' = <<>>
    /\ j' = 0
    /\ unique_jobs' = <<>>
    /\ removed' = <<>>
    /\ all_jobs' = <<>>
    /\ seen_urls' = {}
    /\ exported' = <<>>
    /\ summary' = NoSummary
    /\ UNCHANGED <<pfvars, listvars, utilvars, args>>

NextTwice ==
    \/ Next
    \/ Rerun

SpecTwice == InitTwice /\ [][NextTwice]_vars

\* ----------------------------------------------------------------- SpecList
\* The listing pass of scrape alone: the while loop that parses the cards the
\* result page shows and scrolls for more. The site has a feed of cards, the
\* page shows its first `shown` cards; a scroll leaves the page as it is,
\* loads more cards of the feed, or ends on a page without job cards.

\* the longest feed of a result page
MaxCards == 2

ListCards == {Card("a", Str_sre), Card("b", Str_sre), Card("n", Str_qa)}

RECURSIVE SeqsUpTo(_, _)
SeqsUpTo(S, n) ==
    IF n = 0 THEN {<<>>}
    ELSE LET shorter == SeqsUpTo(S, n - 1)
         IN shorter \cup {Append(q, x) : q \in {r \in shorter : Len(r) = n - 1}, x \in S}

\* query_selector_all / find_elements: the job cards of the page
VisibleCards(l) == IF l.gone THEN <<>> ELSE SubSeq(l.feed, 1, l.shown)

\* document.body.scrollHeight
PageHeight(shown, gone) == IF gone THEN 1 ELSE shown + 2

\* variant: retries is not reset when the page has grown
NextRetriesNeverReset(retries, new_height, last_height) ==
    IF new_height = last_height THEN retries + 1 ELSE retries

\* "if new_height == last_height: retries += 1 else: retries = 0"
NextRetries(retries, new_height, last_height) ==
    IF new_height = last_height THEN retries + 1 ELSE 0

\* the condition of the while loop
ListingContinues(l) ==
    IF l.platform = "naukri"
    THEN Len(l.collected_links) < l.limit /\ l.scroll_attempts < max_scrolls
    ELSE Len(l.collected_links) < l.limit /\ l.retries < retries_limit

\* What the probes of a pass have shown so far, kept apart from the loop's own
\* counters: count and height are the number of links and the page height at
\* the end of the last probe; same_height, barren, quiet_any and quiet_all
\* count the latest consecutive probes that ended on the height of the probe
\* before (0 before the first), added no link, did either, did both.
\* The counters of the probes stop counting at MaxProbes. A pass over a page
\* that changes its height only by showing a card or by losing them all stays
\* below it: the height changes at most MaxCards + 2 times, and no more than
\* retries_limit probes follow one another on the same height.
MaxProbes == retries_limit * (MaxCards + 3)

Counted(n) == IF n < MaxProbes THEN n + 1 ELSE MaxProbes

NoProbe == [count |-> 0, height |-> 0, same_height |-> 0, barren |-> 0,
            quiet_any |-> 0, quiet_all |-> 0]

ProbeSeen(seen, count, height) ==
    LET same == height = seen.height
        none == count = seen.count
    IN [count |-> count, height |-> height,
        same_height |-> IF same THEN Counted(seen.same_height) ELSE 0,
        barren |-> IF none THEN Counted(seen.barren) ELSE 0,
        quiet_any |-> IF same \/ none THEN Counted(seen.quiet_any) ELSE 0,
        quiet_all |-> IF same /\ none THEN Counted(seen.quiet_all) ELSE 0]

\* the listing pass at its while loop, after the wait for the result list
ListingStart(platform, keyword, limit, feed, shown) ==
    [lpc |-> "while", platform |-> platform, keyword |-> keyword, limit |-> limit,
     feed |-> feed, shown |-> shown, gone |-> FALSE,
     job_cards |-> <<>>, i |-> 0, collected_links |-> <<>>,
     retries |-> 0, last_height |-> 0, scroll_attempts |-> 0, last_count |-> 0,
     probes |-> 0, stop |-> "no", seen |-> NoProbe]

\* a feed of max_scrolls cards that all match, for a pass with a limit above it
LongFeed == [k \in 1..max_scrolls |-> Card(<<"f", k>>, Str_sre)]

InitList ==
    /\ \E platform \in DOMAIN _scrapers :
        \/ \E limit \in 1..MaxLimit, feed \in SeqsUpTo(ListCards, MaxCards) :
             \E shown \in 0..Len(feed) :
                \* Glassdoor and Naukri wait for a job card before the loop
                /\ platform \in {"glassdoor", "naukri"} => shown >= 1
                /\ listing = ListingStart(platform, Str_sre, limit, feed, shown)
        \/ /\ platform = "naukri"
           /\ listing = ListingStart(platform, Str_sre, max_scrolls + 1, LongFeed, 1)
    /\ pf = IdlePF
    /\ hist = <<>>
    /\ MainIdle
    /\ UtilIdle

\* the while condition is tested; a pass that goes on queries the job cards,
\* and Glassdoor and Naukri break when there is none
ListWhile ==
    /\ listing.lpc = "while"
    /\ IF ~ListingContinues(listing)
       THEN listing' = [listing EXCEPT !.lpc = "done", !.stop = "while"]
       ELSE LET job_cards == VisibleCards(listing) IN
            IF job_cards = <<>> /\ listing.platform \in {"glassdoor", "naukri"}
            THEN listing' = [listing EXCEPT
                     !.lpc = "done", !.stop = "no cards", !.job_cards = job_cards,
                     !.probes = Counted(@),
                     !.seen = ProbeSeen(@, Len(listing.collected_links), @.height)]
            ELSE listing' = [listing EXCEPT
                     !.lpc = "cards", !.job_cards = job_cards, !.i = 1,
                     !.probes = Counted(@)]
    /\ UNCHANGED <<pfvars, mainvars, twicevars, utilvars>>

\* one turn of "for card in job_cards"
ListCard ==
    /\ listing.lpc = "cards"
    /\ IF listing.i > Len(listing.job_cards)
          \/ LimitReached(listing.collected_links, listing.limit)
       THEN listing' = [listing EXCEPT !.lpc = "after"]
       ELSE listing' = [listing EXCEPT
                !.collected_links = CardStep(listing.job_cards[listing.i],
                                             listing.keyword, @),
                !.i = @ + 1]
    /\ UNCHANGED <<pfvars, mainvars, twicevars, utilvars>>

\* what a scroll can make of the page
Scrolled(l) ==
    IF l.gone THEN {[shown |-> l.shown, gone |-> TRUE]}
    ELSE {[shown |-> n, gone |-> FALSE] : n \in l.shown..Len(l.feed)}
            \cup {[shown |-> l.shown, gone |-> TRUE]}

\* LinkedIn and Glassdoor: the scroll and the test of the page height
ListScroll ==
    /\ listing.lpc = "after"
    /\ listing.platform # "naukri"
    /\ \E page \in Scrolled(listing) :
         LET new_height == PageHeight(page.shown, page.gone) IN
         listing' = [listing EXCEPT
             !.lpc = "while", !.shown = page.shown, !.gone = page.gone,
             !.retries = NextRetries(@, new_height, listing.last_height),
             !.last_height = IF new_height = @ THEN @ ELSE new_height,
             !.seen = ProbeSeen(@, Len(listing.collected_links), new_height)]
    /\ UNCHANGED <<pfvars, mainvars, twicevars, utilvars>>

\* Naukri: the test for new jobs, then the scroll or the break
ListNaukriAfter ==
    /\ listing.lpc = "after"
    /\ listing.platform = "naukri"
    /\ LET n == Len(listing.collected_links)
           logged == ProbeSeen(listing.seen, n, PageHeight(listing.shown, listing.gone))
       IN IF n = listing.last_count
          THEN listing' = [listing EXCEPT !.lpc = "done", !.stop = "no new jobs",
                                          !.seen = logged]
          ELSE IF n < listing.limit /\ listing.scroll_attempts < max_scrolls - 1
          THEN \E page \in Scrolled(listing) :
                 listing' = [listing EXCEPT
                     !.lpc = "while", !.last_count = n,
                     !.shown = page.shown, !.gone = page.gone,
                     !.scroll_attempts = @ + 1, !.seen = logged]
          ELSE listing' = [listing EXCEPT !.lpc = "done", !.stop = "else break",
                                          !.last_count = n, !.seen = logged]
    /\ UNCHANGED <<pfvars, mainvars, twicevars, utilvars>>

NextList ==
    \/ ListWhile
    \/ ListCard
    \/ ListScroll
    \/ ListNaukriAfter

SpecList == InitList /\ [][NextList]_vars

\* ----------------------------------------------------------------- SpecFeed
\* The listing pass over a page that is free in the height it reports:
\* document.body.scrollHeight is read from the page after every scroll, and a
\* page can report another height than before while it shows the cards it
\* showed. The loop runs in a thread of its own and is never held up, hence
\* the weak fairness of its steps.

\* the longest feed of a result page of SpecFeed
MaxFeed == 1

\* the heights a page can report that differ from the last one the loop saw
OtherHeights(l) ==
    LET height == PageHeight(l.shown, l.gone)
    IN {h \in {height, height + 1} : h # l.last_height}

InitFeed ==
    /\ \E platform \in DOMAIN _scrapers, limit \in 1..MaxLimit,
          feed \in SeqsUpTo(ListCards, MaxFeed) :
         \E shown \in 0..Len(feed) :
            /\ platform \in {"glassdoor", "naukri"} => shown >= 1
            /\ listing = ListingStart(platform, Str_sre, limit, feed, shown)
    /\ pf = IdlePF
    /\ hist = <<>>
    /\ MainIdle
    /\ UtilIdle

\* LinkedIn and Glassdoor: a scroll that leaves the cards of the page as they
\* are, after which the page reports another height than the last one
ListScrollHeightChanged ==
    /\ listing.lpc = "after"
    /\ listing.platform # "naukri"
    /\ \E new_height \in OtherHeights(listing) :
         listing' = [listing EXCEPT
             !.lpc = "while",
             !.retries = NextRetries(@, new_height, listing.last_height),
             !.last_height = new_height,
             !.seen = ProbeSeen(@, Len(listing.collected_links), new_height)]
    /\ UNCHANGED <<pfvars, mainvars, twicevars, utilvars>>

NextFeed ==
    \/ ListWhile
    \/ ListCard
    \/ ListScroll
    \/ ListScrollHeightChanged
    \/ ListNaukriAfter

SpecFeed == InitFeed /\ [][NextFeed]_vars /\ WF_vars(NextFeed)

\* C38: the listing loop of every Listing Source terminates for every
\* behaviour of the page, a page whose reported height keeps changing while
\* no new keyword-matching reference appears included: every listing pass
\* comes to the end of its while loop.
C38_ListingLoopTerminates == <>(listing.lpc = "done")

\* ------------------------------------------------------------------ SpecReg
\* The registry from the import of scraper_registry on: any sequence of
\* register, get and create_scraper calls.

InitReg ==
    /\ registry = <<>>
    /\ call = NoCall
    /\ ret = NoReturn
    /\ pf = IdlePF
    /\ hist = <<>>
    /\ listing = IdleListing
    /\ MainIdle

RegisterStep ==
    /\ \E scraper_class \in ScraperClasses :
         LET r == register(registry, scraper_class) IN
         /\ call' = [fn |-> "register", scraper_class |-> scraper_class]
         /\ registry' = r.scrapers
         /\ ret' = r.ret
    /\ UNCHANGED <<pfvars, mainvars, twicevars, listvars>>

GetStep ==
    /\ \E platform_name \in PlatformNames :
         /\ call' = [fn |-> "get", platform_name |-> platform_name]
         /\ ret' = get(registry, platform_name)
    /\ UNCHANGED <<pfvars, mainvars, twicevars, listvars, registry>>

CreateScraperStep ==
    /\ \E platform_name \in PlatformNames :
         /\ call' = [fn |-> "create_scraper", platform_name |-> platform_name]
         /\ ret' = create_scraper(registry, platform_name)
    /\ UNCHANGED <<pfvars, mainvars, twicevars, listvars, registry>>

NextReg ==
    \/ RegisterStep
    \/ GetStep
    \/ CreateScraperStep

SpecReg == InitReg /\ [][NextReg]_vars

\* ------------------------------------------------------------------- SpecFn
\* The utility functions, each called once on an input of a bounded set.

Str_space == <<" ">>
Str_Today == <<"T","o","d","a","y">>
Str_Just_now == <<"J","u","s","t"," ","n","o","w">>
Str_Yesterday == <<"Y","e","s","t","e","r","d","a","y">>
Str_garbage == <<"g","a","r","b","a","g","e">>

\* the numbers, units and decorations of the relative ages
AgoNumbers ==
    {<<"0">>, <<"1">>, <<"2">>, <<"2","3">>, <<"2","4">>, <<"4","7">>, <<"4","8">>,
     <<"9","9","9","9","9","9">>}
AgoUnits ==
    {Str_hour, Str_hr, Str_day, Str_d, Str_week, Str_wk, Str_month, Str_mo}

AgoStrings ==
    {pre \o n \o plus \o sep \o unit \o plural \o Str_space \o Str_ago :
        pre \in {Str_empty, Str_over \o Str_space},
        n \in AgoNumbers,
        plus \in {Str_empty, Str_plus},
        sep \in {Str_empty, Str_space},
        unit \in AgoUnits,
        plural \in {Str_empty, Str_s}}

\* absolute dates, some of them no dates
AbsoluteStrings ==
    {<<"2","0","2","5","-","1","1","-","2","4">>,
     <<"2","0","2","5","-","1","3","-","0","1">>,
     <<"2","0","2","3","-","0","2","-","2","9">>,
     <<"2","0","2","4","-","0","2","-","2","9">>,
     <<"0","9","9","9","-","0","1","-","0","5">>,
     <<"0","0","0","0","-","0","1","-","0","1">>,
     <<"0","2","/","3","0","/","2","0","2","5">>,
     <<"1","2","/","3","1","/","2","0","2","4">>,
     <<"3","1","-","0","4","-","2","0","2","5">>,
     <<"2","4","-","1","1","-","2","0","2","5">>}

DateStrings ==
    AgoStrings \cup AbsoluteStrings
        \cup {Str_empty, Str_space, Str_garbage, Str_Today, Str_Just_now,
              Str_Yesterday, Str_2_days_ago}

\* the days datetime.now() is called on: 2026-11-03 and 2024-03-01
Nows == {ToOrdinal(2026, 11, 3), ToOrdinal(2024, 3, 1)}

ParseRelativeDateCalls ==
    {[fn |-> "parse_relative_date", date_string |-> s, now |-> n] :
        s \in DateStrings, n \in Nows}

\* the titles and keywords keyword_matches is called on
Titles ==
    {<<"S","i","t","e"," ","R","e","l","i","a","b","i","l","i","t","y"," ","E","n","g","i","n","e","e","r"," ","I","I">>,
     <<"B","a","c","k","e","n","d"," ","D","e","v","e","l","o","p","e","r">>,
     <<"S","e","n","i","o","r"," ","P","y","t","h","o","n"," ","D","e","v","e","l","o","p","e","r">>,
     <<"S","R","E"," ","L","e","a","d">>,
     <<"M","a","c","h","i","n","e"," ","L","e","a","r","n","i","n","g"," ","E","n","g","i","n","e","e","r">>,
     <<"Q","A"," ","A","n","a","l","y","s","t">>,
     <<"D","e","v"," ","O","p","s"," ","E","n","g","i","n","e","e","r">>,
     <<"Q","u","a","l","i","t","y"," ","E","n","g","i","n","e","e","r">>,
     <<"E","m","a","i","l"," ","M","a","r","k","e","t","e","r">>,
     <<"D","e","v","e","l","o","p","e","r",","," ","P","y","t","h","o","n">>,
     <<>>}

Keywords ==
    {<<"s","r","e">>,
     <<"S","R","E">>,
     <<"p","y","t","h","o","n"," ","d","e","v","e","l","o","p","e","r">>,
     <<"D","e","v","e","l","o","p","e","r"," "," ","P","y","t","h","o","n">>,
     <<"m","l">>,
     <<"d","e","v","o","p","s">>,
     <<"q","a">>,
     <<"a","i">>,
     <<"r","u","s","t">>,
     <<"u","x"," ","d","e","s","i","g","n","e","r">>,
     <<>>,
     <<" ">>}

KeywordMatchesCalls ==
    {[fn |-> "keyword_matches", title |-> a, keyword |-> b] :
        a \in Titles, b \in Keywords}

\* the job descriptions parse_job_description is called on: an introduction,
\* then up to two headed parts; a body is short, blank, or one character
\* longer than the limit
Intros == {Str_empty, <<"A","b","o","u","t"," ","u","s","."," ">>}
Headings ==
    {<<"R","e","s","p","o","n","s","i","b","i","l","i","t","i","e","s",":">>,
     <<"K","e","y"," ","R","e","s","p","o","n","s","i","b","i","l","i","t","i","e","s">>,
     <<"D","u","t","i","e","s",":">>,
     <<"S","k","i","l","l","s",":">>,
     <<"R","e","q","u","i","r","e","d"," ","S","k","i","l","l","s">>,
     <<"R","e","q","u","i","r","e","m","e","n","t","s",":">>}
LongBody == [i \in 1..(field_limit + 1) |-> "x"]
ShortBodies == {<<" ","B","u","i","l","d"," ","t","h","i","n","g","s","."," ">>, <<" ","G","o",","," ","R","u","s","t",".">>, Str_space}
Parts == {h \o b : h \in Headings, b \in ShortBodies}
LongParts == {h \o Str_space \o LongBody \o Str_space : h \in Headings}
Descriptions ==
    {Str_empty, <<"W","e"," ","n","e","e","d"," ","5","+"," ","y","e","a","r","s",".">>}
        \cup {i \o a : i \in Intros, a \in Parts \cup LongParts}
        \cup {i \o a \o b : i \in Intros, a \in Parts, b \in Parts}
        \cup {a \o b : a \in LongParts, b \in LongParts}

ParseJobDescriptionCalls ==
    {[fn |-> "parse_job_description", text |-> t] : t \in Descriptions}

FnCalls ==
    ParseRelativeDateCalls \cup KeywordMatchesCalls \cup ParseJobDescriptionCalls

InitFn ==
    /\ call \in FnCalls
    /\ ret = NoReturn
    /\ registry = RegistryAfterImport
    /\ pf = IdlePF
    /\ hist = <<>>
    /\ listing = IdleListing
    /\ MainIdle

FnFrame == UNCHANGED <<pfvars, mainvars, twicevars, listvars, registry, call>>

ParseRelativeDateStep ==
    /\ call.fn = "parse_relative_date"
    /\ ret = NoReturn
    /\ ret' = parse_relative_date(call.date_string, call.now)
    /\ FnFrame

KeywordMatchesStep ==
    /\ call.fn = "keyword_matches"
    /\ ret = NoReturn
    /\ ret' = Returns(keyword_matches(call.title, call.keyword))
    /\ FnFrame

ParseJobDescriptionStep ==
    /\ call.fn = "parse_job_description"
    /\ ret = NoReturn
    /\ ret' = Returns(parse_job_description(call.text))
    /\ FnFrame

NextFn ==
    \/ ParseRelativeDateStep
    \/ KeywordMatchesStep
    \/ ParseJobDescriptionStep

SpecFn == InitFn /\ [][NextFn]_vars

\* ------------------------------------------------- parallel_fetch: properties

Count(seq, v) == Cardinality({k \in 1..Len(seq) : seq[k] = v})

\* The worker of the retry test: its first call for an item raises, its second
\* returns a non-empty result.
FailsFirstThenSucceeds(h) ==
    /\ Len(h) >= 1 => h[1] = "raise"
    /\ Len(h) >= 2 => h[2] = "ok"

\* C2: with retry_count = 1 and a worker that raises on its first call for each
\* item and returns a result on its second, the returned list holds the result
\* of every item exactly once.
C2_EachItemExactlyOnce ==
    (/\ pf.pc = "returned"
     /\ pf.budget = 1
     /\ \A i \in DOMAIN hist : FailsFirstThenSucceeds(hist[i]))
    => /\ \A i \in DOMAIN hist : Count(pf.results, i) = 1
       /\ Len(pf.results) = Cardinality(DOMAIN hist)

C2_Witness ==
    /\ pf.pc = "returned"
    /\ pf.budget = 1
    /\ Cardinality(DOMAIN hist) >= 2
    /\ \A i \in DOMAIN hist : hist[i] = <<"raise", "ok">>

\* C3: every recursive call is made with retry_count one smaller and with an
\* item list no longer than its caller's, at most budget + 1 passes are run,
\* and the call returns.
C3_RetryStepShrinks ==
    pf'.passes # pf.passes =>
        /\ pf'.passes = pf.passes + 1
        /\ pf'.retry_count = pf.retry_count - 1
        /\ pf.retry_count > 0
        /\ Len(pf'.items) <= Len(pf.items)
        /\ Len(pf'.items) > 0

C3_Terminates ==
    /\ [][C3_RetryStepShrinks]_vars
    /\ [](pf.passes <= pf.budget + 1 /\ pf.retry_count >= 0)
    /\ <>(pf.pc = "returned")

C3_Witness ==
    /\ pf.pc = "returned"
    /\ pf.budget >= 1
    /\ pf.passes = pf.budget + 1
    /\ \E i \in DOMAIN hist : Len(hist[i]) = pf.budget + 1

\* C4: a worker call that raises stops no other item of the pass from being run
\* and from having its result collected, and no exception leaves parallel_fetch;
\* an item that raised on its last permitted call is dropped from the result.
C4_RaiseNeverAbortsBatch ==
    /\ pf.pc # "raised"
    /\ PFPassOver(pf) =>
         \A i \in Range(pf.items) :
            /\ pf.calls[i] = pf.passes
            /\ Len(hist[i]) = pf.passes
            /\ hist[i][pf.passes] = "ok" => Count(pf.results, i) = 1
    /\ pf.pc = "returned" =>
         \A i \in DOMAIN hist :
            /\ pf.calls[i] >= 1
            /\ hist[i][Len(hist[i])] = "ok" => Count(pf.results, i) = 1
            /\ hist[i][Len(hist[i])] # "ok" => Count(pf.results, i) = 0

C4_Witness ==
    /\ pf.pc = "returned"
    /\ pf.budget = 1
    /\ \E i, k \in DOMAIN hist :
        /\ hist[i] = <<"raise", "raise">>
        /\ hist[k] = <<"ok">>
        /\ pf.results = <<k>>


\* ------------------------------------------------------------ main: properties
Urls(seq) == {seq[k].url : k \in 1..Len(seq)}

CountUrl(seq, url) == Cardinality({k \in 1..Len(seq) : seq[k].url = url})

\* the run went through its drain loop and has exited
RunOver == main_pc = "exited" /\ tasks # <<>>

\* C1: all_jobs never holds two records with the same url, and when the run is
\* over every url some task returned, by one task or by several, is the url of
\* exactly one record of all_jobs.
C1_NoDuplicateUrls ==
    /\ \A a, b \in 1..Len(all_jobs) : a # b => all_jobs[a].url # all_jobs[b].url
    /\ RunOver =>
          \A t \in DOMAIN tjobs : \A k \in 1..Len(tjobs[t]) :
              CountUrl(all_jobs, tjobs[t][k].url) = 1

\* the run is over, two tasks returned a record with the same url
C1_Witness ==
    /\ RunOver
    /\ \E t1, t2 \in DOMAIN tjobs :
          /\ t1 # t2
          /\ Urls(tjobs[t1]) \cap Urls(tjobs[t2]) # {}
    /\ all_jobs # <<>>

\* C5: a task that failed (scraper error, unexpected exception, unknown
\* platform) left an empty list in its future; no state short of the exit is
\* stuck; and at the exit every task was drained, with every record of every
\* task that did not fail handed to the de-duplication.
C5_FailingTaskIsContained ==
    /\ \A t \in DOMAIN tfail : tfail[t] # "no" => tjobs[t] = <<>>
    /\ main_pc # "exited" => ENABLED Next
    /\ RunOver =>
          \A t \in DOMAIN tphase :
              /\ tphase[t] = "drained"
              /\ tfail[t] = "no" =>
                    /\ tpf[t].pc = "returned"
                    /\ tjobs[t] = tpf[t].results
                    /\ Urls(tjobs[t]) \subseteq Urls(all_jobs)

\* the run is over: one task failed on an unknown platform, another one's
\* record is in all_jobs
C5_Witness ==
    /\ RunOver
    /\ \E t1, t2 \in DOMAIN tfail :
          /\ tfail[t1] = "unknown platform"
          /\ tfail[t2] = "no"
          /\ tjobs[t2] # <<>>
          /\ Urls(tjobs[t2]) \subseteq Urls(all_jobs)

\* a LinkedIn detail page whose title is the login wall's
IsLoginWall(resp) == resp.kind = "page" /\ LinkedinLoginWall(resp)

\* C6: when the parallel_fetch of a LinkedIn task has returned, every link
\* whose first visit met the login wall was visited again.
C6_LoginWallIsRetried ==
    \A t \in DOMAIN tphase :
        (tphase[t] = "detail" /\ tasks[t].platform = "linkedin" /\ tpf[t].pc = "returned") =>
            \A link \in DOMAIN visits[t] :
                (visits[t][link] # <<>> /\ IsLoginWall(visits[t][link][1])) =>
                    Len(visits[t][link]) >= 2

\* C7: a task is not failed by a detail page that timed out, and when its
\* parallel_fetch has returned, every link whose first visit timed out was
\* visited again.
C7_TimeoutIsRetried ==
    \A t \in DOMAIN tphase :
        (tphase[t] = "detail" /\ tpf[t].pc = "returned") =>
            \A link \in DOMAIN visits[t] :
                (visits[t][link] # <<>> /\ visits[t][link][1].kind = "timeout") =>
                    Len(visits[t][link]) >= 2

\* C8: a second run with the same arguments, in which no task failed and
\* every detail page answered as in the first run, exports what the first
\* run exported, in the same order.
C8_SameExportTwice ==
    (/\ run = 2
     /\ main_pc = "exited"
     /\ exit_code = 0
     /\ exported # <<>>
     /\ tfail = prev.tfail
     /\ visits = prev.visits) => exported = prev.exported

\* a step that writes seen_urls or all_jobs
WritesDedupState == seen_urls' # seen_urls \/ all_jobs' # all_jobs

\* a step of main's drain loop: no task and no detail fetch moves in it
DrainLoopStep ==
    /\ main_pc \in {"insert", "loop"}
    /\ UNCHANGED <<tasks, pool_queue, tphase, tfail, tpf, tjobs, visits>>

\* C9: seen_urls and all_jobs are written only by steps of main's drain loop,
\* and between the membership test of a url and its insertion nothing has
\* put that url into seen_urls.
C9_OnlyDrainLoopWrites ==
    /\ [][WritesDedupState => DrainLoopStep]_vars
    /\ [](main_pc = "insert" => jobs[j].url \notin seen_urls)

\* main is between the test and the insertion while a detail fetch of
\* another task is in flight
C9_Witness ==
    /\ main_pc = "insert"
    /\ seen_urls # {}
    /\ \E t \in DOMAIN tphase : tphase[t] = "detail" /\ tpf[t].running # {}

\* the detail fetches task t has in flight
InFlight(t) == IF tphase[t] = "detail" THEN Cardinality(tpf[t].running) ELSE 0

RECURSIVE TotalInFlight(_)
TotalInFlight(n) == IF n = 0 THEN 0 ELSE InFlight(n) + TotalInFlight(n - 1)

\* C10: at most --workers tasks are executing, each task has at most 5 detail
\* fetches in flight, and at most workers * 5 detail fetches are in flight.
C10_BoundedConcurrency ==
    /\ Cardinality(RunningTasks) <= args.workers
    /\ \A t \in DOMAIN tphase : InFlight(t) <= 5
    /\ TotalInFlight(Len(tphase)) <= args.workers * 5

\* both pools are full: a task waits for a thread of main's executor while
\* the running task has 5 detail fetches in flight and a sixth link queued
C10_Witness ==
    /\ pool_queue # <<>>
    /\ Cardinality(RunningTasks) = args.workers
    /\ \E t \in DOMAIN tphase :
          /\ InFlight(t) = 5
          /\ tpf[t].queue # <<>>
    /\ TotalInFlight(Len(tphase)) = args.workers * 5


\* the tasks of the run for platform p and location l
TasksFor(p, l) == {t \in DOMAIN tasks : tasks[t].platform = p /\ tasks[t].location = l}

\* how far a task has come
PhaseRank(ph) ==
    IF ph = "queued" THEN 0
    ELSE IF ph = "listing" THEN 1
    ELSE IF ph = "detail" THEN 2
    ELSE IF ph = "done" THEN 3 ELSE 4

\* a step after the submission: no task moves back, none enters the queue
NoResubmit ==
    tphase # <<>> =>
        /\ DOMAIN tphase' = DOMAIN tphase
        /\ \A t \in DOMAIN tphase : PhaseRank(tphase'[t]) >= PhaseRank(tphase[t])
        /\ Range(pool_queue') \subseteq Range(pool_queue)
        /\ tasks' = tasks

\* C11: once the tasks are built there is exactly one task for each pair of a
\* requested platform and a requested location and no other task; a task is
\* in the executor's queue once while it waits and never afterwards, whatever
\* its future holds.
C11_OneTaskPerPairOnce ==
    /\ [](tasks # <<>> =>
            /\ Len(tasks) = Len(PlatformsOf(args)) * Len(args.location)
            /\ \A p \in Range(PlatformsOf(args)), l \in Range(args.location) :
                   Cardinality(TasksFor(p, l)) = 1
            /\ \A t \in DOMAIN tasks :
                   Count(pool_queue, t) = IF tphase[t] = "queued" THEN 1 ELSE 0)
    /\ [][NoResubmit]_vars

\* the run of two platforms on two locations is over: four tasks, one of
\* them failed and one returned no job without failing
C11_Witness ==
    /\ RunOver
    /\ Len(tasks) = 4
    /\ \E t1, t2 \in DOMAIN tasks :
          /\ tfail[t1] # "no"
          /\ tfail[t2] = "no" /\ tjobs[t2] = <<>>


\* nothing of the scraping exists: no task, no future, no scraper call
NothingScraped ==
    /\ tasks = <<>>
    /\ pool_queue = <<>>
    /\ tphase = <<>>
    /\ tpf = <<>>
    /\ visits = <<>>
    /\ sessions = <<>>
    /\ all_jobs = <<>>
    /\ exported = <<>>
    /\ summary = NoSummary

\* C12: when --limit, --days or --workers is not strictly positive, main is
\* either still validating or has exited with a non-zero status, and no task
\* was created or submitted and no scraper was called.
C12_NonPositiveArgsExitEarly ==
    (args.limit <= 0 \/ args.days <= 0 \/ args.workers <= 0) =>
        /\ main_pc \in {"validate", "exited"}
        /\ main_pc = "exited" => exit_code # 0
        /\ NothingScraped

\* main has exited on --workers 0 with limit and days positive
C12_Witness ==
    /\ args.workers = 0 /\ args.limit > 0 /\ args.days > 0
    /\ main_pc = "exited"
    /\ exit_code = 1


\* C13: when the keyword or a location is empty or whitespace-only, main is
\* either still validating or has exited with a non-zero status, and nothing
\* of the scraping has started.
C13_BlankKeywordFailsFast ==
    (IsBlank(args.keyword) \/ \E k \in 1..Len(args.location) : IsBlank(args.location[k])) =>
        /\ main_pc \in {"validate", "exited"}
        /\ main_pc = "exited" => exit_code # 0
        /\ NothingScraped

\* the name under which the statistics count the jobs of a requested platform
PlatformLabel(p) == IF RegistryKnows(p) THEN _scrapers[p] ELSE p

\* every task of requested platform p failed
FailedEntirely(p) ==
    \A t \in DOMAIN tasks : tasks[t].platform = p => tfail[t] # "no"

\* C14: a run that went through its drain loop and exited has logged the
\* per-platform statistics, and they hold a count of zero for every requested
\* platform whose tasks all failed.
C14_SummaryAlways ==
    RunOver =>
        /\ summary.printed
        /\ \A p \in Range(PlatformsOf(args)) :
              FailedEntirely(p) =>
                  /\ PlatformLabel(p) \in DOMAIN summary.platform_stats
                  /\ summary.platform_stats[PlatformLabel(p)] = 0

\* C15: a run that ends with all_jobs empty has exported nothing and exits
\* with a non-zero status; a run that ends with a record in all_jobs has
\* called the export.
C15_ExportSkippedIffEmpty ==
    RunOver =>
        /\ all_jobs = <<>> => (exported = <<>> /\ exit_code # 0)
        /\ all_jobs # <<>> => (exported = all_jobs \/ exit_code = 1)


\* ------------------------------------------------- listing pass: properties

\* the event on which the pass of source l.platform stops: the limit is
\* reached; LinkedIn and Glassdoor: the latest retries_limit scrolls each
\* ended on the height recorded before; Glassdoor and Naukri: the last probe
\* found no job card; Naukri: the last probe added no link, or max_scrolls
\* probes were made
StopEvent(l) ==
    \/ Len(l.collected_links) >= l.limit
    \/ l.platform # "naukri" /\ l.seen.same_height >= retries_limit
    \/ l.platform # "linkedin" /\ l.probes > 0 /\ l.job_cards = <<>>
    \/ l.platform = "naukri" /\ l.probes > 0 /\ l.seen.barren >= 1
    \/ l.platform = "naukri" /\ l.probes >= max_scrolls

\* C16 (as the code has it): a listing pass is over only when the stop event
\* of its source has occurred, and no probe begins once it has. The event is
\* StopEvent: for Naukri one probe without a new link, or 5 probes in all,
\* not 5 consecutive probes without new content.
C16_StopsOnItsEvent ==
    /\ [](listing.lpc = "done" => StopEvent(listing))
    /\ [][listing.probes' > listing.probes => ~StopEvent(listing)]_vars

\* a LinkedIn pass is over below its limit after more probes than
\* retries_limit + 1: the page grew on the way and retries started again
C16_Witness ==
    /\ listing.lpc = "done"
    /\ listing.platform = "linkedin"
    /\ Len(listing.collected_links) < listing.limit
    /\ listing.probes > retries_limit + 1
    /\ listing.seen.same_height = retries_limit

\* C16 (as stated): a pass is over only when limit links are collected or
\* the latest 5 probes each brought no new content (no new link, or no new
\* page height), and a probe begins only when neither has occurred.
C16_StopsAtLimitOrFiveQuietProbes ==
    /\ listing.lpc = "done" =>
          \/ Len(listing.collected_links) >= listing.limit
          \/ listing.seen.quiet_any >= 5
    /\ (listing.lpc = "cards" /\ listing.i = 1) =>
          /\ Len(listing.collected_links) < listing.limit
          /\ listing.seen.quiet_all < 5

\* C17: at every step of a listing pass at most limit links are collected.
C17_AtMostLimitLinks ==
    listing.lpc # "idle" => Len(listing.collected_links) <= listing.limit

\* the loop over the cards stands before a matching card that is not yet
\* collected, with limit links collected
C17_Witness ==
    /\ listing.lpc = "cards"
    /\ Len(listing.collected_links) = listing.limit
    /\ listing.i <= Len(listing.job_cards)
    /\ keyword_matches(listing.job_cards[listing.i].title, listing.keyword)
    /\ listing.job_cards[listing.i].link \notin Range(listing.collected_links)

\* C18: at every step of a listing pass the collected links are pairwise
\* distinct.
C18_LinksDistinct ==
    listing.lpc # "idle" =>
        \A a, b \in 1..Len(listing.collected_links) :
            a # b => listing.collected_links[a] # listing.collected_links[b]

\* a later probe stands before a matching card whose link an earlier probe
\* collected
C18_Witness ==
    /\ listing.lpc = "cards"
    /\ listing.probes >= 2
    /\ listing.i <= Len(listing.job_cards)
    /\ keyword_matches(listing.job_cards[listing.i].title, listing.keyword)
    /\ listing.job_cards[listing.i].link \in Range(listing.collected_links)

\* the links task t hands or handed to its detail fetches
DetailLinks(t) == Range(tpf[t].items) \cup DOMAIN visits[t]

\* C19: every link of a task's detail phase is the link of a card of the
\* task's result page whose title matches the keyword.
C19_DetailLinksMatchKeyword ==
    \A t \in DOMAIN tpf : \A link \in DetailLinks(t) :
        \E k \in 1..Len(Cards(tasks[t].platform, tasks[t].location)) :
            LET card == Cards(tasks[t].platform, tasks[t].location)[k]
            IN card.link = link /\ keyword_matches(card.title, tasks[t].keyword)

\* a task whose result page has a card with another title has visited its
\* links, the link of that card is none of them
C19_Witness ==
    \E t \in DOMAIN tpf :
        /\ tpf[t].pc = "returned"
        /\ DetailLinks(t) # {}
        /\ \A link \in DetailLinks(t) : visits[t][link] # <<>>
        /\ \E k \in 1..Len(Cards(tasks[t].platform, tasks[t].location)) :
              LET card == Cards(tasks[t].platform, tasks[t].location)[k]
              IN /\ ~keyword_matches(card.title, tasks[t].keyword)
                 /\ card.link \notin DetailLinks(t)

\* C20: a detail page that reports a location that does not pass the relaxed
\* match against the searched location yields no record, in every source,
\* and its link is not filed for a retry.
C20_ReportedLocationMatches ==
    \A t \in DOMAIN tpf : \A link \in DOMAIN visits[t] :
        \A v \in 1..Len(visits[t][link]) :
            LET resp == visits[t][link][v] IN
            (/\ resp.kind = "page"
             /\ resp.has_loc
             /\ ~location_matches(resp.loc, tasks[t].location)) =>
                /\ link \notin Urls(tpf[t].results)
                /\ \A c \in tpf[t].completed : c[1] = link => c[2] = None
                /\ link \notin Range(tpf[t].failed_items)


\* ------------------------------------------------- properties of the registry

\* the positions of key among the items of the registry
KeyPositions(d, key) == {k \in 1..Len(d) : d[k][1] = key}

\* the items of the registry under the other keys
OtherItems(d, key) == {d[k] : k \in 1..Len(d) \ KeyPositions(d, key)}

\* C21: a registration leaves exactly one entry for the id it registers,
\* mapped to the implementation just registered, and leaves the entries of
\* the other ids as they were; registering the same implementation a second
\* time gives the registry that registering it once gives; no id ever has two
\* entries.
C21_RegisterLastWins ==
    /\ [](\A key \in Range(DictKeys(registry)) :
              Cardinality(KeyPositions(registry, key)) = 1)
    /\ [](\A c \in ScraperClasses :
              register(register(registry, c).scrapers, c).scrapers
                  = register(registry, c).scrapers)
    /\ [][(call'.fn = "register" /\ ret'.kind = "return") =>
            LET key == Lower(call'.scraper_class.platform_name) IN
            /\ Cardinality(KeyPositions(registry', key)) = 1
            /\ DictGet(registry', key) = call'.scraper_class.name
            /\ OtherItems(registry', key) = OtherItems(registry, key)]_vars

\* an id registered before another one has just been registered again, with
\* the second implementation
C21_Witness ==
    /\ call.fn = "register"
    /\ call.scraper_class = LinkedinApiScraper
    /\ Len(registry) >= 2
    /\ registry[1] = <<Str_linkedin, "LinkedinApiScraper">>

\* C22: get and create_scraper leave the registry as it is; for a name whose
\* lower-cased form is no key they raise KeyError with a message that lists
\* exactly the registered ids, and return nothing; for a registered id get
\* returns the class registered under it and create_scraper an instance of it.
C22_UnknownPlatformIsKeyError ==
    [][call'.fn \in {"get", "create_scraper"} =>
        /\ registry' = registry
        /\ LET key == Lower(call'.platform_name) IN
           IF KeyPositions(registry, key) = {}
           THEN /\ ret'.kind = "raise"
                /\ ret'.val.exc = "KeyError"
                /\ ret'.val.msg.platform_name = call'.platform_name
                /\ Range(ret'.val.msg.available) = {registry[k][1] : k \in 1..Len(registry)}
                /\ Len(ret'.val.msg.available) = Len(registry)
           ELSE /\ ret'.kind = "return"
                /\ \E k \in KeyPositions(registry, key) :
                     IF call'.fn = "get"
                     THEN ret'.val = registry[k][2]
                     ELSE ret'.val = [instance_of |-> registry[k][2]]]_vars

\* create_scraper has failed for an unknown platform while two ids were registered
C22_Witness ==
    /\ call.fn = "create_scraper"
    /\ call.platform_name = Str_indeed
    /\ ret.kind = "raise"
    /\ Len(ret.val.msg.available) >= 2


\* ------------------------------------------------ properties of the sessions

\* the browsers of task t that are open: that of its listing pass, those of
\* the visits still running, and those a finished visit left open
OpenSessions(t) ==
    (IF sessions[t].listing = "open" THEN 1 ELSE 0)
        + Cardinality(tpf[t].running) + sessions[t].open

VisitGave(platform, resp, job) ==
    /\ resp.kind = "page"
    /\ platform = "linkedin" => ~IsLoginWall(resp)
    /\ job.title = resp.title
    /\ job.company = resp.company

\* some task visited the url of the record and that visit gave the record
FromDetailFetch(job) ==
    \E t \in DOMAIN visits :
        /\ job.url \in DOMAIN visits[t]
        /\ \E v \in 1..Len(visits[t][job.url]) :
               VisitGave(tasks[t].platform, visits[t][job.url][v], job)

\* C24: every record of all_jobs, of what is exported and of what a task
\* returned was given by a visit of its url that loaded the detail page; a
\* link of the search page whose visits all failed has no record.
C24_RecordsComeFromDetailFetch ==
    /\ \A k \in 1..Len(all_jobs) : FromDetailFetch(all_jobs[k])
    /\ \A k \in 1..Len(exported) : FromDetailFetch(exported[k])
    /\ \A t \in DOMAIN tjobs : \A k \in 1..Len(tjobs[t]) : FromDetailFetch(tjobs[t][k])

\* a run is over that kept a record and visited a collected link without
\* getting its page
C24_Witness ==
    /\ RunOver
    /\ all_jobs # <<>>
    /\ \E t \in DOMAIN visits : \E link \in DOMAIN visits[t] :
         /\ visits[t][link] # <<>>
         /\ \A v \in 1..Len(visits[t][link]) : visits[t][link][v].kind # "page"
         /\ \A k \in 1..Len(all_jobs) : all_jobs[k].url # link


\* ------------------------------------------- properties of the date parser

\* a string of the form YYYY-MM-DD
IsIsoDate(d) ==
    /\ Len(d) = 10
    /\ \A k \in {1, 2, 3, 4, 6, 7, 9, 10} : d[k] \in Range(Digits)
    /\ d[5] = "-" /\ d[8] = "-"

\* C25: parse_relative_date never raises and returns a YYYY-MM-DD date or
\* None; "2 days ago" gives the day two days before now, "Today" gives now,
\* and a string no rule matches, or whose absolute date has no such month or
\* day, gives None.
C25_ParseNeverRaises ==
    (call.fn = "parse_relative_date" /\ ret # NoReturn) =>
        /\ ret.kind # "raise"
        /\ ret.kind = "return" => IsIsoDate(ret.val)
        /\ ret.kind \in {"return", "none"}
        /\ call.date_string = Str_2_days_ago =>
              /\ ret.kind = "return"
              /\ ret.val = IF call.now = ToOrdinal(2026, 11, 3)
                           THEN <<"2","0","2","6","-","1","1","-","0","1">>
                           ELSE <<"2","0","2","4","-","0","2","-","2","8">>
        /\ call.date_string = Str_Today =>
              /\ ret.kind = "return"
              /\ ret.val = IF call.now = ToOrdinal(2026, 11, 3)
                           THEN <<"2","0","2","6","-","1","1","-","0","3">>
                           ELSE <<"2","0","2","4","-","0","3","-","0","1">>
        /\ call.date_string \in
              {Str_garbage, Str_space,
               <<"2","0","2","5","-","1","3","-","0","1">>,
               <<"0","2","/","3","0","/","2","0","2","5">>,
               <<"3","1","-","0","4","-","2","0","2","5">>} => ret = None


\* --------------------------------------- properties of the keyword matcher

\* sub occurs in s: it stands at some position of s
OccursIn(sub, s) ==
    \E a \in 1..(Len(s) + 1) :
        /\ a + Len(sub) - 1 <= Len(s)
        /\ \A k \in 1..Len(sub) : s[a + k - 1] = sub[k]

\* the words of a string: the spans <<a, b>> of its longest runs without a space
WordSpans(s) ==
    {span \in (1..Len(s)) \X (1..Len(s)) :
        /\ span[1] <= span[2]
        /\ \A k \in span[1]..span[2] : s[k] # " "
        /\ span[1] = 1 \/ s[span[1] - 1] = " "
        /\ span[2] = Len(s) \/ s[span[2] + 1] = " "}

\* C26: keyword_matches is true exactly when the lower-cased keyword occurs in
\* the lower-cased title, or is a key of the variant table one of whose
\* variants occurs in it, or has more than one word and every word occurs in
\* it; "Site Reliability Engineer II"/"sre" and "Senior Python
\* Developer"/"python developer" match, "Backend Developer"/"sre" does not.
C26_KeywordMatchesExactly ==
    (call.fn = "keyword_matches" /\ ret # NoReturn) =>
        LET title == Lower(call.title)
            keyword == Lower(call.keyword)
            words == {SubSeq(keyword, span[1], span[2]) : span \in WordSpans(keyword)}
            Str_sre_l == <<"s","r","e">>
        IN /\ ret.kind = "return"
           /\ ret.val <=>
                \/ OccursIn(keyword, title)
                \/ /\ keyword \in DOMAIN keyword_variations
                   /\ \E v \in keyword_variations[keyword] : OccursIn(v, title)
                \/ /\ Cardinality(WordSpans(keyword)) > 1
                   /\ \A w \in words : OccursIn(w, title)
           /\ (keyword = Str_sre_l /\ OccursIn(<<"r","e","l","i","a","b","i","l","i","t","y">>, title))
                 => ret.val
           /\ (keyword = Str_sre_l /\ OccursIn(<<"b","a","c","k","e","n","d">>, title))
                 => ~ret.val
           /\ (Cardinality(WordSpans(keyword)) = 2 /\ OccursIn(<<"s","e","n","i","o","r">>, title)
                 /\ <<"p","y","t","h","o","n">> \in words)
                 => ret.val

\* a keyword of two words has been found in a title that holds both, apart
C26_Witness ==
    /\ call.fn = "keyword_matches"
    /\ ret = Returns(TRUE)
    /\ Len(Split(Lower(call.keyword))) = 2
    /\ ~Contains(Lower(call.title), Lower(call.keyword))

\* ------------------------------------------- parse_job_description: properties

\* the call of parse_job_description has returned
DescriptionParsed ==
    call.fn = "parse_job_description" /\ ret.kind = "return"

\* the field is absent or at most n characters long
AtMost(field, n) == field = None \/ Len(field.val) <= n

\* C27: for every input text, neither the responsibilities field nor the
\* skills field returned by parse_job_description is longer than 2000
\* characters.
C27_FieldsAtMost2000 ==
    DescriptionParsed =>
        /\ AtMost(ret.val.responsibilities, 2000)
        /\ AtMost(ret.val.skills, 2000)

\* what a piece of the text becomes as a field: stripped, cut, absent if empty
AsField(piece) == OrNone(Truncate(Strip(piece)))

\* C28: when both a responsibilities heading and a skills heading are found,
\* the text between the end of the earlier heading and the start of the later
\* one goes to the earlier heading's field and the text after the later heading
\* goes to the later heading's field; when only one heading is found,
\* everything after it goes to its field and the other field is absent; when
\* none is found both fields are absent.
C28_SectionsFollowHeadingOrder ==
    DescriptionParsed /\ call.text # <<>> =>
        LET text == call.text
            resp == find_section_start(resp_patterns, Lower(text))
            skill == find_section_start(skill_patterns, Lower(text))
            between(first, second) == AsField(Slice(text, first[2], second[1]))
            rest(heading) == AsField(SliceFrom(text, heading[2]))
        IN /\ resp[1] # NoMatch /\ skill[1] # NoMatch /\ resp[1] < skill[1] =>
                /\ ret.val.responsibilities = between(resp, skill)
                /\ ret.val.skills = rest(skill)
           /\ resp[1] # NoMatch /\ skill[1] # NoMatch /\ skill[1] < resp[1] =>
                /\ ret.val.skills = between(skill, resp)
                /\ ret.val.responsibilities = rest(resp)
           /\ resp[1] # NoMatch /\ skill[1] = NoMatch =>
                /\ ret.val.responsibilities = rest(resp)
                /\ ret.val.skills = None
           /\ resp[1] = NoMatch /\ skill[1] # NoMatch =>
                /\ ret.val.skills = rest(skill)
                /\ ret.val.responsibilities = None
           /\ resp[1] = NoMatch /\ skill[1] = NoMatch =>
                /\ ret.val.responsibilities = None
                /\ ret.val.skills = None

\* the skills heading comes first and both fields are present and short
C28_Witness ==
    /\ DescriptionParsed
    /\ LET resp == find_section_start(resp_patterns, Lower(call.text))
           skill == find_section_start(skill_patterns, Lower(call.text))
       IN /\ skill[1] # NoMatch
          /\ resp[1] # NoMatch
          /\ skill[1] < resp[1]
    /\ ret.val.skills # None
    /\ ret.val.responsibilities # None
    /\ Len(ret.val.responsibilities.val) < field_limit

\* ------------------------------------------------------ lookback: properties

\* the records a task returned that were posted more than its days before now
OlderThanLookback(t) ==
    {k \in 1..Len(tjobs[t]) :
        ~is_within_days(tjobs[t][k].posted_date, tasks[t].days, now)}

\* C29: no record whose normalized posted date is more than lookback-days
\* before now is in a task's output.
C29_NoRecordOlderThanLookback ==
    \A t \in DOMAIN tjobs : OlderThanLookback(t) = {}

\* ------------------------------------------- parallel_fetch: the retry passes

\* the items of the pass whose worker call of this pass raised
RaisedInPass ==
    {i \in Range(pf.items) : hist[i] # <<>> /\ hist[i][Len(hist[i])] = "raise"}

\* the worker of the item has returned, a result or None
HasReturned(i) ==
    hist[i] # <<>> /\ hist[i][Len(hist[i])] \in {"ok", "none"}

\* C30: the items submitted in pass k+1 of parallel_fetch are exactly the
\* items whose worker call raised in pass k; pass k+1 is run only if that set
\* is not empty and the remaining retry budget is greater than 0, with the
\* budget minus 1, and its results are appended; an item whose worker returned
\* a result or None is never submitted again.
C30_RetryPassTakesRaisedItems ==
    [][/\ (pf.pc = "running" /\ pf.queue = <<>> /\ pf.running = {}
              /\ pf.completed = {} /\ pf' # pf) =>
            IF RaisedInPass # {} /\ pf.retry_count > 0
            THEN /\ pf'.pc = "running"
                 /\ pf'.passes = pf.passes + 1
                 /\ Range(pf'.items) = RaisedInPass
                 /\ Len(pf'.items) = Cardinality(RaisedInPass)
                 /\ pf'.queue = pf'.items
                 /\ pf'.retry_count = pf.retry_count - 1
                 /\ pf'.results = pf.results
            ELSE /\ pf'.pc = "returned"
                 /\ pf'.passes = pf.passes
                 /\ pf'.results = pf.results
       /\ (pf'.passes # pf.passes) =>
             (pf.pc = "running" /\ pf.queue = <<>> /\ pf.running = {}
                 /\ pf.completed = {})
       /\ Len(pf.results) <= Len(pf'.results)
       /\ SubSeq(pf'.results, 1, Len(pf.results)) = pf.results
       /\ \A i \in DOMAIN hist :
             HasReturned(i) =>
                /\ pf'.calls[i] = pf.calls[i]
                /\ i \notin Range(pf'.queue)
                /\ i \notin pf'.running
      ]_pfvars

\* a second pass runs over the one item that raised, with the budget minus 1,
\* after a first pass in which the other item returned None; the item of the
\* second pass returned a result, appended to the results
C30_Witness ==
    /\ pf.passes = 2
    /\ pf.retry_count = pf.budget - 1
    /\ Len(pf.items) = 1
    /\ hist[pf.items[1]] = <<"raise", "ok">>
    /\ \E i \in DOMAIN hist : hist[i] = <<"none">>
    /\ pf.results = <<pf.items[1]>>

\* ------------------------------------------- listing references: properties

\* the visits of the detail page of link l by task t, oldest first
VisitsOf(t, l) == visits[t][l]

\* the original statement of C31: a link of a listing pass is never visited a
\* second time, and it was visited once when the parallel_fetch of its task
\* has returned
C31_EachLinkFetchedExactlyOnce ==
    \A t \in DOMAIN visits : \A l \in DOMAIN visits[t] :
        /\ Len(VisitsOf(t, l)) <= 1
        /\ tpf[t].pc = "returned" => Len(VisitsOf(t, l)) = 1

\* C31, amended: every link of a listing pass is visited at least once by the
\* time the parallel_fetch of its task has returned; a LinkedIn or Glassdoor
\* link is never visited a second time; a Naukri link is visited again only
\* after a visit whose browser did not start, and at most max_retries + 1
\* times.
C31_EachLinkFetchedOnceUnlessRaised ==
    \A t \in DOMAIN visits : \A l \in DOMAIN visits[t] :
        /\ tpf[t].pc = "returned" => Len(VisitsOf(t, l)) >= 1
        /\ tasks[t].platform \in {"linkedin", "glassdoor"} =>
              Len(VisitsOf(t, l)) <= 1
        /\ \A k \in 1..(Len(VisitsOf(t, l)) - 1) :
              VisitsOf(t, l)[k].kind = "launchfail"
        /\ Len(VisitsOf(t, l)) <= max_retries + 1

\* a Naukri link visited twice: the browser of the first visit did not start,
\* the second visit gave the page, in a parallel_fetch that has returned
C31_Witness ==
    /\ \E t \in DOMAIN visits : \E l \in DOMAIN visits[t] :
          /\ tasks[t].platform = "naukri"
          /\ tpf[t].pc = "returned"
          /\ Len(VisitsOf(t, l)) = 2
          /\ VisitsOf(t, l)[1].kind = "launchfail"
          /\ VisitsOf(t, l)[2].kind = "page"

\* ----------------------------------------------- parse_relative_date: rules

\* the call of parse_relative_date is over
DateParsed == call.fn = "parse_relative_date" /\ ret # NoReturn

\* the rules of parse_relative_date, but the absolute formats, that match
\* the string
RulesMatching(date_string) ==
    LET s == Strip(Lower(date_string))
    IN {rule \in {"today", "yesterday", "hours", "days", "weeks", "months",
                  "over", "plus"} :
          \/ rule = "today" /\ \E word \in {Str_today, Str_just_now, Str_just_posted} :
                                  Contains(s, word)
          \/ rule = "yesterday" /\ Contains(s, Str_yesterday)
          \/ rule = "hours" /\ AgoSearch(s, Str_empty, {Str_hour, Str_hr}) # NoMatch
          \/ rule = "days" /\ AgoSearch(s, Str_empty, {Str_day, Str_d}) # NoMatch
          \/ rule = "weeks" /\ AgoSearch(s, Str_empty, {Str_week, Str_wk}) # NoMatch
          \/ rule = "months" /\ AgoSearch(s, Str_empty, {Str_month, Str_mo}) # NoMatch
          \/ rule = "over" /\ OverSearch(s) # NoMatch
          \/ rule = "plus" /\ AgoSearch(s, Str_plus, {Str_day, Str_d}) # NoMatch}

\* C32: the rules of parse_relative_date are mutually exclusive: no input is
\* matched by more than one rule, so "over N days ago" is decided by the
\* "over N days" rule, N + 1 days before now, and "N+ days ago" by the
\* "N+ days" rule, N days before now.
C32_RulesMutuallyExclusive ==
    (DateParsed /\ call.date_string # <<>>) =>
        LET s == Strip(Lower(call.date_string))
            over_days == OverSearch(s)
            plus_days == AgoSearch(s, Str_plus, {Str_day, Str_d})
        IN /\ Cardinality(RulesMatching(call.date_string)) <= 1
           /\ over_days # NoMatch => ret = DaysAgo(call.now, over_days + 1)
           /\ plus_days # NoMatch => ret = DaysAgo(call.now, plus_days)

\* the strings "N hours ago": the number, "hour" or "hr", with or without a
\* space before the unit and an "s" after it
HoursAgoString(n, sep, unit, plural) ==
    n \o sep \o unit \o plural \o Str_space \o Str_ago

\* C33: for an input "N hours ago", parse_relative_date returns the date of
\* now when N < 24 and the date floor(N / 24) days before now when N >= 24.
C33_HoursAgoInWholeDays ==
    \A n \in AgoNumbers, sep \in {Str_empty, Str_space},
       unit \in {Str_hour, Str_hr}, plural \in {Str_empty, Str_s} :
        (DateParsed /\ call.date_string = HoursAgoString(n, sep, unit, plural)) =>
            LET days == CHOOSE d \in 0..ParseInt(n) :
                            24 * d <= ParseInt(n) /\ ParseInt(n) < 24 * (d + 1)
            IN ret = Returns(strftime(call.now - days))

\* "48 hours ago" on 2026-11-03 gave 2026-11-01
C33_Witness ==
    /\ DateParsed
    /\ call.date_string = HoursAgoString(<<"4","8">>, Str_space, Str_hour, Str_s)
    /\ call.now = ToOrdinal(2026, 11, 3)
    /\ ret = Returns(<<"2","0","2","6","-","1","1","-","0","1">>)

\* the leftmost match of any pattern of the list: <<start, end>>, or
\* <<NoMatch, NoMatch>>
EarliestHeading(patterns, text_lower) ==
    LET found == {HeadingSearch(text_lower, patterns[a]) : a \in 1..Len(patterns)}
                    \ {<<NoMatch, NoMatch>>}
    IN IF found = {} THEN <<NoMatch, NoMatch>>
       ELSE CHOOSE m \in found : \A other \in found : m[1] <= other[1]

\* C34: the position parse_job_description uses as the start of the
\* responsibilities (skills) section is the earliest position at which any of
\* the responsibilities (skills) headings occurs: the fields it returns are
\* those cut at the earliest headings.
C34_SectionStartsAtEarliestHeading ==
    (DescriptionParsed /\ call.text # <<>>) =>
        LET text_lower == Lower(call.text)
            resp == EarliestHeading(resp_patterns, text_lower)
            skill == EarliestHeading(skill_patterns, text_lower)
            sections == Sections(call.text, resp, skill)
        IN /\ find_section_start(resp_patterns, text_lower) = resp
           /\ find_section_start(skill_patterns, text_lower) = skill
           /\ ret.val.responsibilities = AsField(sections.responsibilities)
           /\ ret.val.skills = AsField(sections.skills)

\* ------------------------------------------------ de-duplication: accounting

\* the tasks whose future main has handled to the end
DrainedTasks == {t \in DOMAIN tphase : tphase[t] = "drained" /\ t # cur}

\* the sum of f[t] over the tasks of the set
RECURSIVE SumOver(_, _)
SumOver(f, set) ==
    IF set = {} THEN 0
    ELSE LET t == CHOOSE t \in set : TRUE
         IN f[t] + SumOver(f, set \ {t})

\* C35: after each completed task has been drained, seen_urls is the set of
\* the urls of all_jobs and all_jobs is as long as seen_urls is large; the
\* duplicates counted for the tasks drained are the records they yielded less
\* the records appended, so the records yielded are the final count plus the
\* duplicates removed.
C35_DedupAccounting ==
    main_pc \in {"drain", "exited"} /\ tphase # <<>> =>
        /\ seen_urls = Urls(all_jobs)
        /\ Len(all_jobs) = Cardinality(seen_urls)
        /\ \A t \in DrainedTasks : removed[t] >= 0 /\ removed[t] <= Len(tjobs[t])
        /\ SumOver([t \in DOMAIN tjobs |-> Len(tjobs[t])], DrainedTasks)
              = Len(all_jobs) + SumOver(removed, DrainedTasks)

\* the run is over; one task had a duplicate removed, another had its
\* records appended
C35_Witness ==
    /\ RunOver
    /\ \E t \in DOMAIN removed : removed[t] > 0
    /\ \E t \in DOMAIN removed : removed[t] = 0 /\ tjobs[t] # <<>>
    /\ Len(all_jobs) >= 2

\* C36: a record appended to all_jobs is never removed or replaced, and no
\* record is appended whose url all_jobs or seen_urls already holds: draining
\* a later task that yields a record of the same url, whatever its other
\* fields, leaves the first record in place.
C36_FirstRecordDrainedWins ==
    [][/\ Len(all_jobs) <= Len(all_jobs')
       /\ SubSeq(all_jobs', 1, Len(all_jobs)) = all_jobs
       /\ seen_urls \subseteq seen_urls'
       /\ \A k \in (Len(all_jobs) + 1)..Len(all_jobs') :
             /\ all_jobs'[k].url \notin Urls(all_jobs)
             /\ CountUrl(all_jobs', all_jobs'[k].url) = 1
       /\ \A k \in 1..Len(unique_jobs') :
             unique_jobs'[k].url \notin Urls(all_jobs)
      ]_mainvars

\* the run is over: a task that was drained later yielded a record of a url
\* of all_jobs with other field values, and it was counted as a duplicate
C36_Witness ==
    /\ RunOver
    /\ \E t \in DOMAIN tjobs :
          /\ removed[t] > 0
          /\ \E k \in 1..Len(tjobs[t]), m \in 1..Len(all_jobs) :
                /\ tjobs[t][k].url = all_jobs[m].url
                /\ tjobs[t][k] # all_jobs[m]

\* ---------------------------------------- parallel_fetch: worker invocations

\* C37: for every item passed to parallel_fetch with retry budget r >= 0, the
\* worker is invoked on the item at least once and at most r + 1 times, the
\* item contributes at most one element to the returned list, and the
\* returned list holds no None: each of its elements is the result a worker
\* call returned.
C37_InvocationsWithinBudget ==
    /\ \A i \in DOMAIN hist :
          /\ pf.calls[i] <= pf.budget + 1
          /\ Len(hist[i]) <= pf.calls[i]
          /\ Count(pf.results, i) <= 1
    /\ \A k \in 1..Len(pf.results) :
          \E i \in DOMAIN hist :
              pf.results[k] = Ok(i).val /\ hist[i][Len(hist[i])] = "ok"
    /\ pf.pc = "returned" =>
          \A i \in DOMAIN hist : pf.calls[i] >= 1 /\ Len(hist[i]) = pf.calls[i]

\* the call has returned: the worker was invoked budget + 1 times on an item
\* and raised every time, and once on an item it returned None for; the
\* returned list is empty
C37_Witness ==
    /\ pf.pc = "returned"
    /\ pf.budget >= 1
    /\ \E i, k \in DOMAIN hist :
          /\ pf.calls[i] = pf.budget + 1
          /\ \A n \in 1..Len(hist[i]) : hist[i][n] = "raise"
          /\ hist[k] = <<"none">>
    /\ pf.results = <<>>

====
